---- MODULE Spec2Model ----
(***************************************************************************)
(* Job lifecycle of the klawwork API: the worker routes (accept, start,    *)
(* upload, complete) and the agent routes (approve, reject, cancel) acting *)
(* on one job row of the D1 database.  Every handler is a sequence of      *)
(* awaited statements; each awaited statement (one SQL statement, one      *)
(* ledger fetch, one object-store call) is one atomic step, and the steps  *)
(* of concurrently running requests interleave freely.                     *)
(*                                                                         *)
(* Money is counted in half cents, so that payment_amount * 0.5 is an      *)
(* integer for every amount in whole cents: 200 is 1.00 USD.  A timestamp  *)
(* column is modelled by whether it is set (TRUE) or NULL (FALSE).         *)
(***************************************************************************)
EXTENDS Integers, Sequences, FiniteSets, TLC

\* ---------------------------------------------------------------- bounds
\* requests that may get past the row check of their handler
MaxOps == 7
\* deliverable uploads that may draw a file id
MaxDeliverables == 1
\* reviews a worker receives in the rating specification
MaxReviews == 3
\* sweep periods the clock of the room runs through
MaxTime == 3
\* the quotas of RATE_LIMITS are counted in units of QuotaScale requests
QuotaScale == 20
\* requests let through beyond a quota before the window stops taking requests
MaxOver == 1
\* payment_amount of the job, in cents
PaymentCents == 150

\* ------------------------------------------------------------- constants
NULL == "null"
Workers == {"w1", "w2"}
Agents == {"a1", "a2"}
ReqIds == {"r1", "r2"}
\* trustLevels array of the accept handler, as a level -> index map
trustLevels == [basic |-> 0, verified |-> 1, kyc_gold |-> 2]
\* trustLevels.indexOf(level): -1 for a string that is not in the array
indexOf(level) == IF level \in DOMAIN trustLevels THEN trustLevels[level] ELSE -1
\* users.trust_level of the two workers
trust_level == [w1 |-> "verified", w2 |-> "kyc_gold"]
\* body.payment_amount of the job and the body.tip_amount values of an approve
PaymentAmount == 2 * PaymentCents
Tips == {0, 400}
HoldId == "hold1"
SessionIds == {"s1", "s2", "s3"}
sessionNo == [s1 |-> 1, s2 |-> 2, s3 |-> 3]

VARIABLES
    job,            \* the row of table jobs
    deliverables,   \* rows of job_deliverables, in insertion order
    transactions,   \* rows of transactions, in insertion order
    messages,       \* rows of messages, in insertion order
    users,          \* users.jobs_completed / total_earned per worker
    agents,         \* agents.jobs_completed / total_spent_sats per agent
    ledger,         \* escrow calls issued to KlawKeeper, in order
    storage,        \* keys present in the PHOTOS bucket
    nextFile,       \* next generateId('file') value
    admitted,       \* number of requests that got past their handler's row check
    req,            \* the requests being handled: handler position and locals
    resp,           \* the response returned by the last step, if it returned one
    out,            \* the job records in the body of that response
    reviews,        \* rows of reviews, in insertion order
    keeper,         \* how KlawKeeper answers a fetch: "up", "refusing" or "down"
    sessions,       \* JobsRoom.sessions: the registry, session id -> userId, lastPing
    pingInterval,   \* JobsRoom.pingInterval: the sweep timers set and not cleared
    clock,          \* Date.now(), in sweep periods
    sockets,        \* the server side of each WebSocket: open, broken or closed
    sent,           \* the frames the last step of the room delivered
    did,            \* the room operation of the last step and its arguments
    kv,             \* env.SESSIONS: the counter stored under each window key
    served,         \* requests the rate limiter has let through to a route handler
    rl,             \* the rate limiter runs in progress: position and locals
    verdict         \* what the last step of the rate limiter answered

db == <<job, deliverables, transactions, messages, users, agents, reviews>>
room == <<sessions, pingInterval, clock, sockets, sent, did>>
limiter == <<kv, served, rl, verdict>>
Range(f) == {f[i] : i \in DOMAIN f}

vars == <<job, deliverables, transactions, messages, users, agents,
          ledger, storage, nextFile, admitted, req, resp, out, reviews, keeper, room, limiter>>

\* ------------------------------------------------------------- requests
NoSnap == [status |-> NULL, worker_id |-> NULL]
NoFx == [txns |-> <<>>, earned |-> 0, voids |-> <<>>, dels |-> {}]
Idle == [pc |-> "idle", op |-> NULL, caller |-> NULL, tip |-> 0, keep |-> TRUE,
         reason |-> NULL, key |-> 0, snap |-> NoSnap, todo |-> <<>>, fx |-> NoFx,
         escrow |-> NULL, level |-> NULL, rating |-> 0,
         amount |-> 0, total_earned |-> 0, pending |-> 0, thread |-> {}]

\* the handler's local `job`: the columns of the row it read that it uses later
Snapshot == [status |-> job.status, worker_id |-> job.worker_id]

NoResp == [op |-> NULL, caller |-> NULL, code |-> 0]

InFlight(r) == req[r].pc # "idle"
Quiescent == \A r \in ReqIds : ~InFlight(r)

\* a request arrives: the locals of its handler before the first statement
Arrive(op, caller) == [Idle EXCEPT !.pc = "read", !.op = op, !.caller = caller]

\* the handler of request q returns status code c and a body with the job records
\* of set body
Answer(r, q, c, body) ==
    /\ req' = [req EXCEPT ![r] = Idle]
    /\ admitted' = admitted
    /\ resp' = [op |-> q.op, caller |-> q.caller, code |-> c]
    /\ out' = body

\* the handler of request q returns with status code c at its first statement
Fail(r, q, c) == Answer(r, q, c, {})

\* the handler of r continues with locals q
Proceed(r, q) ==
    /\ req' = [req EXCEPT ![r] = q]
    /\ admitted' = IF InFlight(r) THEN admitted ELSE admitted + 1
    /\ resp' = NoResp
    /\ out' = {}

\* the handler of r returns with status code c
Finish(r, c) == Answer(r, req[r], c, {})

At(r, op, pc) == req[r].op = op /\ req[r].pc = pc
Goto(r, pc) == Proceed(r, [req[r] EXCEPT !.pc = pc])

\* the row INSERT INTO jobs writes: status 'available', the other columns at their
\* defaults; expired says whether expires_at has passed
NewJob(agent, level, hold) ==
    [id |-> "job1", agent_id |-> agent, status |-> "available",
     worker_id |-> NULL, required_trust_level |-> level,
     payment_amount |-> PaymentAmount, escrow_hold_id |-> hold,
     assigned_at |-> FALSE, started_at |-> FALSE,
     submitted_at |-> FALSE, completed_at |-> FALSE,
     rejection_count |-> 0, last_rejection_reason |-> NULL, expired |-> FALSE]

\* no row in table jobs
NoJob == [NewJob(NULL, NULL, NULL) EXCEPT !.id = NULL, !.status = NULL]

\* users and agents rows after registration
NewUser(level) == [jobs_completed |-> 0, total_earned |-> 0, trust_level |-> level,
                   rating |-> [num |-> 0, den |-> 1], rating_count |-> 0]
NewAgent == [jobs_created |-> 0, jobs_completed |-> 0, total_spent_sats |-> 0]

\* RATE_LIMITS[category].maxRequests
RATE_LIMITS ==
    [worker_search |-> 100 \div QuotaScale,
     job_create    |-> 20 \div QuotaScale,
     job_status    |-> 200 \div QuotaScale,
     messages      |-> 50 \div QuotaScale,
     default       |-> 120 \div QuotaScale]

\* a URL pathname as its segments: <<"agent", "jobs">> is /agent/jobs
\* path.includes('/' + segs joined by '/'): the segments occur in the path in a row;
\* with no segments this is path.includes('/'), true of every pathname
includes(path, segs) ==
    \E i \in 0..(Len(path) - Len(segs)) :
       \A k \in 1..Len(segs) : path[i + k] = segs[k]

\* path.includes('/message'): a segment that begins with "message"
includesMessage(path) == \E i \in DOMAIN path : path[i] \in {"message", "messages"}

getCategory(method, path) ==
    IF includes(path, <<"workers", "search">>) THEN "worker_search"
    ELSE IF includes(path, <<"agent", "jobs">>) /\ method = "POST" /\ ~includes(path, <<>>)
      THEN "job_create"
    ELSE IF includes(path, <<"agent", "jobs">>) /\ method = "GET" THEN "job_status"
    ELSE IF includesMessage(path) THEN "messages"
    ELSE "default"

\* the requests the rate limiter is run for
Routes ==
    [create  |-> [method |-> "POST", path |-> <<"agent", "jobs">>],
     message |-> [method |-> "POST", path |-> <<"agent", "jobs", "job1", "message">>]]

\* who makes which of them
Calls == {<<"a1", "create">>, <<"a1", "message">>, <<"a2", "create">>}

category(route) == getCategory(Routes[route].method, Routes[route].path)

\* `rl:${key}:${category}` with key = `agent:${request.agent.id}`
windowKey(caller, route) == <<caller, category(route)>>
WindowKeys == Agents \X DOMAIN RATE_LIMITS

NoRun == [pc |-> "idle", caller |-> NULL, route |-> NULL, count |-> 0]
NoVerdict == [caller |-> NULL, route |-> NULL, code |-> 0]

\* no counter is stored and no request has been made
NewLimiter ==
    /\ kv = [k \in WindowKeys |-> 0]
    /\ served = [a \in Agents |-> [route \in DOMAIN Routes |-> 0]]
    /\ rl = [r \in ReqIds |-> NoRun]
    /\ verdict = NoVerdict

\* new JobsRoom(): sessions = new Map(), pingInterval = null; no socket accepted
NoSession == [userId |-> NULL, lastPing |-> 0]
NoCall == [op |-> NULL, arg |-> NULL, session |-> NULL]

NewRoom ==
    /\ sessions = [s \in SessionIds |-> NoSession]
    /\ pingInterval = 0
    /\ clock = 0
    /\ sockets = [s \in SessionIds |-> "closed"]
    /\ sent = {}
    /\ did = NoCall

\* the tables other than jobs, users and agents are empty, no request is running
Fresh ==
    /\ deliverables = <<>>
    /\ transactions = <<>>
    /\ messages = <<>>
    /\ reviews = <<>>
    /\ ledger = <<>>
    /\ storage = {}
    /\ nextFile = 1
    /\ req = [r \in ReqIds |-> Idle]
    /\ admitted = 0
    /\ resp = NoResp
    /\ out = {}
    /\ NewRoom
    /\ NewLimiter

\* agent a1 has created the job (hold obtained, row inserted, counter raised)
Init ==
    /\ job = NewJob("a1", "verified", HoldId)
    /\ users = [w \in Workers |-> NewUser(trust_level[w])]
    /\ agents = [a \in Agents |-> IF a = "a1" THEN [NewAgent EXCEPT !.jobs_created = 1]
                                             ELSE NewAgent]
    /\ keeper = "up"
    /\ Fresh

\* a request may arrive on connection r
CanArrive(r) == ~InFlight(r) /\ admitted < MaxOps

\* uploads that are running and have not drawn their file id yet
PendingUploads == Cardinality({r \in ReqIds : req[r].op = "upload" /\ req[r].pc = "put"})

\* ------------------------------------------------ worker: POST /jobs/:id/accept
\* SELECT * FROM jobs WHERE id = ? AND status = 'available', then the trust check
AcceptRowFound == job.status = "available"

\* trustLevels.indexOf(user.trust_level) < trustLevels.indexOf(job.required_trust_level)
TrustTooLow(w) == indexOf(users[w].trust_level) < indexOf(job.required_trust_level)

AcceptRead(r) ==
    /\ CanArrive(r)
    /\ \E w \in Workers : LET q == Arrive("accept", w) IN
       IF ~AcceptRowFound
         THEN Fail(r, q, 404)
         ELSE IF TrustTooLow(w)
         THEN Fail(r, q, 403)
         ELSE Proceed(r, [q EXCEPT !.pc = "write", !.snap = Snapshot])
    /\ UNCHANGED <<job, deliverables, transactions, messages, users, agents,
                   ledger, storage, nextFile,
                   reviews, keeper, room, limiter>>

\* UPDATE jobs SET status = 'assigned', worker_id = ?, assigned_at = now WHERE id = ?
AcceptWrite(r) ==
    /\ At(r, "accept", "write")
    /\ job' = [job EXCEPT !.status = "assigned", !.worker_id = req[r].caller,
                          !.assigned_at = TRUE]
    /\ Finish(r, 200)
    /\ UNCHANGED <<deliverables, transactions, messages, users, agents,
                   ledger, storage, nextFile,
                   reviews, keeper, room, limiter>>

\* ------------------------------------------------- worker: POST /jobs/:id/start
\* SELECT * FROM jobs WHERE id = ? AND worker_id = ? AND status = 'assigned'
StartRowFound(w) == job.worker_id = w /\ job.status = "assigned"

StartRead(r) ==
    /\ CanArrive(r)
    /\ \E w \in Workers : LET q == Arrive("start", w) IN
       IF ~StartRowFound(w)
         THEN Fail(r, q, 404)
         ELSE Proceed(r, [q EXCEPT !.pc = "write", !.snap = Snapshot])
    /\ UNCHANGED <<job, deliverables, transactions, messages, users, agents,
                   ledger, storage, nextFile,
                   reviews, keeper, room, limiter>>

\* UPDATE jobs SET status = 'in_progress', started_at = now WHERE id = ?
StartWrite(r) ==
    /\ At(r, "start", "write")
    /\ job' = [job EXCEPT !.status = "in_progress", !.started_at = TRUE]
    /\ Finish(r, 200)
    /\ UNCHANGED <<deliverables, transactions, messages, users, agents,
                   ledger, storage, nextFile,
                   reviews, keeper, room, limiter>>

\* ------------------------------------------------ worker: POST /jobs/:id/upload
\* SELECT * FROM jobs WHERE id = ? AND worker_id = ?, then the form data is parsed
UploadRowFound(w) == job.worker_id = w

UploadRead(r) ==
    /\ CanArrive(r)
    /\ nextFile + PendingUploads <= MaxDeliverables
    /\ \E w \in Workers : LET q == Arrive("upload", w) IN
       IF ~UploadRowFound(w)
         THEN Fail(r, q, 404)
         ELSE \E file \in {NULL, "file"} :
                IF file = NULL
                  THEN Fail(r, q, 400)
                  ELSE Proceed(r, [q EXCEPT !.pc = "put", !.snap = Snapshot])
    /\ UNCHANGED <<job, deliverables, transactions, messages, users, agents,
                   ledger, storage, nextFile,
                   reviews, keeper, room, limiter>>

\* env.PHOTOS.put(fileKey, ...): stores the object, or throws (caught: 500)
UploadPut(r) ==
    /\ At(r, "upload", "put")
    /\ nextFile' = nextFile + 1
    /\ \/ /\ storage' = storage \cup {nextFile}
          /\ Proceed(r, [req[r] EXCEPT !.pc = "insert", !.key = nextFile])
       \/ /\ storage' = storage
          /\ Finish(r, 500)
    /\ UNCHANGED <<job, deliverables, transactions, messages, users, agents, ledger,
                   reviews, keeper, room, limiter>>

\* INSERT INTO job_deliverables (id, job_id, worker_id, file_type, file_url, ...)
UploadInsert(r) ==
    /\ At(r, "upload", "insert")
    /\ deliverables' = Append(deliverables,
           [job_id |-> job.id, worker_id |-> req[r].caller, file_url |-> req[r].key])
    /\ Finish(r, 200)
    /\ UNCHANGED <<job, transactions, messages, users, agents, ledger, storage, nextFile,
                   reviews, keeper, room, limiter>>

\* ---------------------------------------------- worker: POST /jobs/:id/complete
\* SELECT * FROM jobs WHERE id = ? AND worker_id = ? AND status = 'in_progress'
CompleteRowFound(w) == job.worker_id = w /\ job.status = "in_progress"

CompleteRead(r) ==
    /\ CanArrive(r)
    /\ \E w \in Workers : LET q == Arrive("complete", w) IN
       IF ~CompleteRowFound(w)
         THEN Fail(r, q, 404)
         ELSE Proceed(r, [q EXCEPT !.pc = "count", !.snap = Snapshot])
    /\ UNCHANGED <<job, deliverables, transactions, messages, users, agents,
                   ledger, storage, nextFile,
                   reviews, keeper, room, limiter>>

\* SELECT COUNT(*) as count FROM job_deliverables WHERE job_id = ?
CompleteCount(r) ==
    /\ At(r, "complete", "count")
    /\ IF Len(deliverables) = 0
         THEN Finish(r, 400)
         ELSE Goto(r, "write")
    /\ UNCHANGED <<job, deliverables, transactions, messages, users, agents,
                   ledger, storage, nextFile,
                   reviews, keeper, room, limiter>>

\* UPDATE jobs SET status = 'submitted', submitted_at = now WHERE id = ?
CompleteWrite(r) ==
    /\ At(r, "complete", "write")
    /\ job' = [job EXCEPT !.status = "submitted", !.submitted_at = TRUE]
    /\ Finish(r, 200)
    /\ UNCHANGED <<deliverables, transactions, messages, users, agents,
                   ledger, storage, nextFile,
                   reviews, keeper, room, limiter>>

\* ---------------------------------------- agent: POST /agent/jobs/:id/approve
\* the row check without its status condition
ApproveRowFound_AnyStatus(a) == job.agent_id = a

\* SELECT * FROM jobs WHERE id = ? AND agent_id = ? AND status = 'submitted'
ApproveRowFound(a) == job.agent_id = a /\ job.status = "submitted"

ApproveRead(r) ==
    /\ CanArrive(r)
    /\ \E a \in Agents : LET q == Arrive("approve", a) IN
       IF ~ApproveRowFound(a)
         THEN Fail(r, q, 404)
         ELSE \E tip \in Tips :
                Proceed(r, [q EXCEPT !.pc = "release", !.tip = tip, !.snap = Snapshot])
    /\ UNCHANGED <<job, deliverables, transactions, messages, users, agents,
                   ledger, storage, nextFile,
                   reviews, keeper, room, limiter>>

\* the handler aborting with 502 when the ledger call throws
AfterLedger_Abort(r, q, outcome) ==
    IF outcome = "down" THEN Finish(r, 502) ELSE Proceed(r, [q EXCEPT !.escrow = outcome])

\* try { await fetch(...) } catch (err) { console.error(...) }: the response is not
\* looked at and a throw is caught, so the handler goes on to its next statement;
\* outcome is how the ledger answered ("up": ok, "refusing": error response,
\* "down": the fetch threw)
AfterLedger(r, q, outcome) == Proceed(r, [q EXCEPT !.escrow = outcome])

\* fetch(.../v1/escrow/release, { hold_id }): the call is issued
ApproveRelease(r) ==
    /\ At(r, "approve", "release")
    /\ ledger' = Append(ledger, [op |-> "release", hold_id |-> job.escrow_hold_id,
                                 refund_percent |-> 0, answer |-> keeper])
    /\ AfterLedger(r, [req[r] EXCEPT !.pc = "update"], keeper)
    /\ UNCHANGED <<job, deliverables, transactions, messages, users, agents,
                   storage, nextFile,
                   reviews, keeper, room, limiter>>

\* UPDATE jobs SET status = 'completed', completed_at = now WHERE id = ?
ApproveUpdate(r) ==
    /\ At(r, "approve", "update")
    /\ job' = [job EXCEPT !.status = "completed", !.completed_at = TRUE]
    /\ Goto(r, "txn")
    /\ UNCHANGED <<deliverables, transactions, messages, users, agents,
                   ledger, storage, nextFile,
                   reviews, keeper, room, limiter>>

Txn(user, type, amount) ==
    [user_id |-> user, type |-> type, amount |-> amount, job_id |-> job.id,
     status |-> "completed"]

\* INSERT INTO transactions (..., 'job_payment', job.payment_amount, ...); user_id is
\* NOT NULL, so the insert throws for a row read without a worker (caught: 500)
ApproveTxn(r) ==
    /\ At(r, "approve", "txn")
    /\ IF req[r].snap.worker_id = NULL
         THEN /\ Finish(r, 500)
              /\ UNCHANGED transactions
         ELSE LET t == Txn(req[r].snap.worker_id, "job_payment", job.payment_amount) IN
              /\ transactions' = Append(transactions, t)
              /\ Proceed(r, [req[r] EXCEPT !.pc = IF req[r].tip > 0 THEN "tip" ELSE "user",
                                            !.fx.txns = Append(@, t)])
    /\ UNCHANGED <<job, deliverables, messages, users, agents, ledger, storage, nextFile,
                   reviews, keeper, room, limiter>>

\* if (body.tip_amount && body.tip_amount > 0) INSERT INTO transactions (..., 'bonus', ...)
ApproveTip(r) ==
    /\ At(r, "approve", "tip")
    /\ LET t == Txn(req[r].snap.worker_id, "bonus", req[r].tip) IN
       /\ transactions' = Append(transactions, t)
       /\ Proceed(r, [req[r] EXCEPT !.pc = "user", !.fx.txns = Append(@, t)])
    /\ UNCHANGED <<job, deliverables, messages, users, agents, ledger, storage, nextFile,
                   reviews, keeper, room, limiter>>

\* the tip left out of the total
totalPaid_NoTip(r) == job.payment_amount

\* const totalPaid = job.payment_amount + tipAmount
totalPaid(r) == job.payment_amount + req[r].tip

\* UPDATE users SET jobs_completed = jobs_completed + 1,
\*                  total_earned = total_earned + totalPaid WHERE id = job.worker_id
ApproveUser(r) ==
    /\ At(r, "approve", "user")
    /\ LET w == req[r].snap.worker_id IN
       users' = [users EXCEPT ![w].jobs_completed = @ + 1,
                              ![w].total_earned = @ + totalPaid(r)]
    /\ Proceed(r, [req[r] EXCEPT !.pc = "agent", !.fx.earned = @ + totalPaid(r)])
    /\ UNCHANGED <<job, deliverables, transactions, messages, agents,
                   ledger, storage, nextFile,
                   reviews, keeper, room, limiter>>

\* UPDATE agents SET jobs_completed = jobs_completed + 1,
\*                   total_spent_sats = total_spent_sats + totalPaid WHERE id = agent.id
ApproveAgent(r) ==
    /\ At(r, "approve", "agent")
    /\ agents' = [agents EXCEPT ![req[r].caller].jobs_completed = @ + 1,
                                ![req[r].caller].total_spent_sats = @ + totalPaid(r)]
    /\ Finish(r, 200)
    /\ UNCHANGED <<job, deliverables, transactions, messages, users,
                   ledger, storage, nextFile,
                   reviews, keeper, room, limiter>>

\* ----------------------------------------- agent: POST /agent/jobs/:id/reject
\* SELECT * FROM jobs WHERE id = ? AND agent_id = ? AND status = 'submitted'
RejectRowFound(a) == job.agent_id = a /\ job.status = "submitted"

\* body.reason is validated, then the row is read;
\* keepAssigned = body.keep_assigned !== false
RejectRead(r) ==
    /\ CanArrive(r)
    /\ \E a \in Agents, reason \in {NULL, "reason"} :
       LET q == [Arrive("reject", a) EXCEPT !.reason = reason] IN
       IF reason = NULL
         THEN Fail(r, q, 400)
         ELSE IF ~RejectRowFound(a)
         THEN Fail(r, q, 404)
         ELSE \E keep \in BOOLEAN :
                Proceed(r, [q EXCEPT !.pc = IF keep THEN "keep" ELSE "release",
                                     !.keep = keep, !.snap = Snapshot])
    /\ UNCHANGED <<job, deliverables, transactions, messages, users, agents,
                   ledger, storage, nextFile,
                   reviews, keeper, room, limiter>>

Message(r, text) ==
    [job_id |-> job.id, agent_id |-> req[r].caller, worker_id |-> req[r].snap.worker_id,
     sender_type |-> "agent", message_type |-> "system", message |-> text,
     is_read |-> FALSE]

\* the keepAssigned UPDATE also clearing started_at, as the release UPDATE does
KeepAssignedRow_ClearsStarted(reason) ==
    [job EXCEPT !.status = "in_progress", !.submitted_at = FALSE, !.started_at = FALSE,
                !.rejection_count = @ + 1, !.last_rejection_reason = reason]

\* the row the keepAssigned UPDATE leaves
KeepAssignedRow(reason) ==
    [job EXCEPT !.status = "in_progress", !.submitted_at = FALSE,
                !.rejection_count = @ + 1, !.last_rejection_reason = reason]

\* UPDATE jobs SET status = 'in_progress', submitted_at = NULL,
\*   rejection_count = COALESCE(rejection_count, 0) + 1, last_rejection_reason = ?
RejectKeep(r) ==
    /\ At(r, "reject", "keep")
    /\ job' = KeepAssignedRow(req[r].reason)
    /\ IF req[r].snap.worker_id = NULL
         THEN Finish(r, 200)
         ELSE Goto(r, "msg")
    /\ UNCHANGED <<deliverables, transactions, messages, users, agents,
                   ledger, storage, nextFile,
                   reviews, keeper, room, limiter>>

\* UPDATE jobs SET status = 'available', worker_id = NULL, assigned_at = NULL,
\*   started_at = NULL, submitted_at = NULL, rejection_count = ... + 1, ...
RejectRelease(r) ==
    /\ At(r, "reject", "release")
    /\ job' = [job EXCEPT !.status = "available", !.worker_id = NULL,
                          !.assigned_at = FALSE, !.started_at = FALSE,
                          !.submitted_at = FALSE, !.rejection_count = @ + 1,
                          !.last_rejection_reason = req[r].reason]
    /\ Goto(r, "select")
    /\ UNCHANGED <<deliverables, transactions, messages, users, agents,
                   ledger, storage, nextFile,
                   reviews, keeper, room, limiter>>

\* SELECT file_url FROM job_deliverables WHERE job_id = ?
RejectSelect(r) ==
    /\ At(r, "reject", "select")
    /\ Proceed(r, [req[r] EXCEPT !.pc = "cleanup",
                                  !.todo = [i \in 1..Len(deliverables) |-> deliverables[i].file_url]])
    /\ UNCHANGED <<job, deliverables, transactions, messages, users, agents,
                   ledger, storage, nextFile,
                   reviews, keeper, room, limiter>>

\* for (const d of deliverables) try { await env.PHOTOS.delete(d.file_url) } catch {}
RejectDeleteObject(r) ==
    /\ At(r, "reject", "cleanup")
    /\ req[r].todo # <<>>
    /\ \/ storage' = storage \ {Head(req[r].todo)}
       \/ storage' = storage
    /\ Proceed(r, [req[r] EXCEPT !.todo = Tail(@), !.fx.dels = @ \cup {Head(req[r].todo)}])
    /\ UNCHANGED <<job, deliverables, transactions, messages, users, agents,
                   ledger, nextFile,
                   reviews, keeper, room, limiter>>

\* DELETE FROM job_deliverables WHERE job_id = ?
RejectDeleteRows(r) ==
    /\ At(r, "reject", "cleanup")
    /\ req[r].todo = <<>>
    /\ deliverables' = <<>>
    /\ IF req[r].snap.worker_id = NULL
         THEN Finish(r, 200)
         ELSE Goto(r, "msg")
    /\ UNCHANGED <<job, transactions, messages, users, agents, ledger, storage, nextFile,
                   reviews, keeper, room, limiter>>

\* if (job.worker_id) INSERT INTO messages (..., 'agent', 'Job rejected: ...', 'system')
RejectMessage(r) ==
    /\ At(r, "reject", "msg")
    /\ messages' = Append(messages, Message(r, "rejected"))
    /\ Finish(r, 200)
    /\ UNCHANGED <<job, deliverables, transactions, users, agents, ledger, storage, nextFile,
                   reviews, keeper, room, limiter>>

\* ----------------------------------------- agent: POST /agent/jobs/:id/cancel
\* SELECT * FROM jobs WHERE id = ? AND agent_id = ?
CancelRowFound(a) == job.agent_id = a

\* the status checks without the one for submitted
CancelRefused_SubmittedAllowed(status) == status \in {"completed", "cancelled"}

\* the three status checks that answer 409
CancelRefused(status) == status \in {"submitted", "completed", "cancelled"}

CancelRead(r) ==
    /\ CanArrive(r)
    /\ \E a \in Agents : LET q == Arrive("cancel", a) IN
       IF ~CancelRowFound(a)
         THEN Fail(r, q, 404)
         ELSE IF CancelRefused(job.status)
         THEN Fail(r, q, 409)
         ELSE Proceed(r, [q EXCEPT !.pc = "void", !.snap = Snapshot])
    /\ UNCHANGED <<job, deliverables, transactions, messages, users, agents,
                   ledger, storage, nextFile,
                   reviews, keeper, room, limiter>>

\* let refundPercent = 100; if (job.status === 'in_progress') refundPercent = 50
refundPercent(status) == IF status = "in_progress" THEN 50 ELSE 100

\* if (job.status === 'in_progress' && job.worker_id)
Compensated(snap) == snap.status = "in_progress" /\ snap.worker_id # NULL

\* fetch(.../v1/escrow/void, { hold_id, refund_percent }): the call is issued
CancelVoid(r) ==
    /\ At(r, "cancel", "void")
    /\ ledger' = Append(ledger, [op |-> "void", hold_id |-> job.escrow_hold_id,
                                 refund_percent |-> refundPercent(req[r].snap.status),
                                 answer |-> keeper])
    /\ AfterLedger(r, [req[r] EXCEPT
                           !.pc = IF Compensated(req[r].snap) THEN "txn" ELSE "update",
                           !.fx.voids = Append(@, refundPercent(req[r].snap.status))],
                    keeper)
    /\ UNCHANGED <<job, deliverables, transactions, messages, users, agents,
                   storage, nextFile,
                   reviews, keeper, room, limiter>>

\* const compensation = job.payment_amount * 0.5 (amounts are even: half cents)
compensation == job.payment_amount \div 2

\* INSERT INTO transactions (..., 'job_payment', compensation, ...)
CancelTxn(r) ==
    /\ At(r, "cancel", "txn")
    /\ LET t == Txn(req[r].snap.worker_id, "job_payment", compensation) IN
       /\ transactions' = Append(transactions, t)
       /\ Proceed(r, [req[r] EXCEPT !.pc = "earn", !.fx.txns = Append(@, t)])
    /\ UNCHANGED <<job, deliverables, messages, users, agents, ledger, storage, nextFile,
                   reviews, keeper, room, limiter>>

\* UPDATE users SET total_earned = total_earned + compensation WHERE id = job.worker_id
CancelEarn(r) ==
    /\ At(r, "cancel", "earn")
    /\ users' = [users EXCEPT ![req[r].snap.worker_id].total_earned = @ + compensation]
    /\ Proceed(r, [req[r] EXCEPT !.pc = "update", !.fx.earned = @ + compensation])
    /\ UNCHANGED <<job, deliverables, transactions, messages, agents,
                   ledger, storage, nextFile,
                   reviews, keeper, room, limiter>>

\* UPDATE jobs SET status = 'cancelled' WHERE id = ?
CancelUpdate(r) ==
    /\ At(r, "cancel", "update")
    /\ job' = [job EXCEPT !.status = "cancelled"]
    /\ IF req[r].snap.worker_id = NULL
         THEN Finish(r, 200)
         ELSE Goto(r, "msg")
    /\ UNCHANGED <<deliverables, transactions, messages, users, agents,
                   ledger, storage, nextFile,
                   reviews, keeper, room, limiter>>

\* if (job.worker_id) INSERT INTO messages (..., 'Job cancelled by agent', 'system')
CancelMessage(r) ==
    /\ At(r, "cancel", "msg")
    /\ messages' = Append(messages, Message(r, "cancelled"))
    /\ Finish(r, 200)
    /\ UNCHANGED <<job, deliverables, transactions, users, agents, ledger, storage, nextFile,
                   reviews, keeper, room, limiter>>

\* ------------------------------------------------------------ specification
Next ==
    \E r \in ReqIds :
       \/ AcceptRead(r) \/ AcceptWrite(r)
       \/ StartRead(r) \/ StartWrite(r)
       \/ UploadRead(r) \/ UploadPut(r) \/ UploadInsert(r)
       \/ CompleteRead(r) \/ CompleteCount(r) \/ CompleteWrite(r)
       \/ ApproveRead(r) \/ ApproveRelease(r) \/ ApproveUpdate(r) \/ ApproveTxn(r)
       \/ ApproveTip(r) \/ ApproveUser(r) \/ ApproveAgent(r)
       \/ RejectRead(r) \/ RejectKeep(r) \/ RejectRelease(r) \/ RejectSelect(r)
       \/ RejectDeleteObject(r) \/ RejectDeleteRows(r) \/ RejectMessage(r)
       \/ CancelRead(r) \/ CancelVoid(r) \/ CancelTxn(r) \/ CancelEarn(r)
       \/ CancelUpdate(r) \/ CancelMessage(r)

Spec == Init /\ [][Next]_vars

\* ------------------------------------------- worker routes against the reject
\* the job has been created and two file ids can still be drawn
InitCleanup ==
    /\ job = NewJob("a1", "verified", HoldId)
    /\ users = [w \in Workers |-> NewUser(trust_level[w])]
    /\ agents = [a \in Agents |-> IF a = "a1" THEN [NewAgent EXCEPT !.jobs_created = 1]
                                             ELSE NewAgent]
    /\ keeper = "up"
    /\ deliverables = <<>> /\ transactions = <<>> /\ messages = <<>> /\ reviews = <<>>
    /\ ledger = <<>> /\ storage = {}
    /\ nextFile = 0
    /\ req = [r \in ReqIds |-> Idle]
    /\ admitted = 0 /\ resp = NoResp /\ out = {}
    /\ NewRoom /\ NewLimiter

\* the requests of the workers and the agent's rejects
NextCleanup ==
    \E r \in ReqIds :
       \/ AcceptRead(r) \/ AcceptWrite(r)
       \/ StartRead(r) \/ StartWrite(r)
       \/ UploadRead(r) \/ UploadPut(r) \/ UploadInsert(r)
       \/ CompleteRead(r) \/ CompleteCount(r) \/ CompleteWrite(r)
       \/ RejectRead(r) \/ RejectKeep(r) \/ RejectRelease(r) \/ RejectSelect(r)
       \/ RejectDeleteObject(r) \/ RejectDeleteRows(r) \/ RejectMessage(r)

SpecCleanup == InitCleanup /\ [][NextCleanup]_vars


\* ----------------------------------------------- agent: POST /agent/jobs (create)
\* values of body.required_trust_level: absent, the three tiers, another string
Tiers == {"basic", "verified", "kyc_gold"}
Levels == Tiers \cup {NULL, "premium"}

\* the body is validated (400), then the handler goes on to the escrow hold
CreateRead(r) ==
    /\ CanArrive(r)
    /\ job = NoJob
    /\ \E a \in Agents, valid \in BOOLEAN : LET q == Arrive("create", a) IN
       IF ~valid
         THEN Fail(r, q, 400)
         ELSE \E level \in Levels : Proceed(r, [q EXCEPT !.pc = "hold", !.level = level])
    /\ UNCHANGED <<job, deliverables, transactions, messages, users, agents,
                   ledger, storage, nextFile, reviews, keeper, room, limiter>>

\* the hold step going on to the INSERT whatever the ledger answers
CreateHold_NoAbort(r) ==
    /\ At(r, "create", "hold")
    /\ ledger' = Append(ledger, [op |-> "hold",
                                 hold_id |-> IF keeper = "up" THEN HoldId ELSE NULL,
                                 refund_percent |-> 0, answer |-> keeper])
    /\ Proceed(r, [req[r] EXCEPT !.pc = "insert", !.escrow = keeper])
    /\ UNCHANGED <<job, deliverables, transactions, messages, users, agents,
                   storage, nextFile, reviews, keeper, room, limiter>>

\* fetch(.../v1/escrow/hold): !ok is answered 402, a throw 502; otherwise
\* escrowHoldId = escrowData.hold_id
CreateHold(r) ==
    /\ At(r, "create", "hold")
    /\ ledger' = Append(ledger, [op |-> "hold",
                                 hold_id |-> IF keeper = "up" THEN HoldId ELSE NULL,
                                 refund_percent |-> 0, answer |-> keeper])
    /\ IF keeper = "refusing" THEN Finish(r, 402)
       ELSE IF keeper = "down" THEN Finish(r, 502)
       ELSE Proceed(r, [req[r] EXCEPT !.pc = "insert", !.escrow = keeper])
    /\ UNCHANGED <<job, deliverables, transactions, messages, users, agents,
                   storage, nextFile, reviews, keeper, room, limiter>>

\* body.required_trust_level || 'basic'
required_trust_level(level) == IF level = NULL THEN "basic" ELSE level

\* INSERT INTO jobs (..., required_trust_level, ..., status 'available', ..., escrow_hold_id)
CreateInsert(r) ==
    /\ At(r, "create", "insert")
    /\ job' = NewJob(req[r].caller, required_trust_level(req[r].level), HoldId)
    /\ Goto(r, "count")
    /\ UNCHANGED <<deliverables, transactions, messages, users, agents,
                   ledger, storage, nextFile, reviews, keeper, room, limiter>>

\* UPDATE agents SET jobs_created = jobs_created + 1 WHERE id = agent.id
CreateCount(r) ==
    /\ At(r, "create", "count")
    /\ agents' = [agents EXCEPT ![req[r].caller].jobs_created = @ + 1]
    /\ Goto(r, "select")
    /\ UNCHANGED <<job, deliverables, transactions, messages, users,
                   ledger, storage, nextFile, reviews, keeper, room, limiter>>

\* SELECT * FROM jobs WHERE id = ?; return json({ job }, { status: 201 })
CreateSelect(r) ==
    /\ At(r, "create", "select")
    /\ Answer(r, req[r], 201, {job.id})
    /\ UNCHANGED <<job, deliverables, transactions, messages, users, agents,
                   ledger, storage, nextFile, reviews, keeper, room, limiter>>

\* ------------------------------------------------------- worker: GET /jobs
\* a trust filter that shows a job only to workers of exactly its tier
TrustFilter_ExactTier(required, userLevel) ==
    \/ required = "basic"
    \/ required = userLevel

\* the trust filter of the listing's WHERE clause
TrustFilter(required, userLevel) ==
    \/ required = "basic"
    \/ required = "verified" /\ userLevel \in {"verified", "kyc_gold"}
    \/ required = "kyc_gold" /\ userLevel = "kyc_gold"

\* WHERE j.status = 'available' AND j.expires_at > datetime('now') AND <trust filter>;
\* near says whether the row also passes the category and distance filters
Listed(w, near) ==
    /\ job.status = "available"
    /\ ~job.expired
    /\ TrustFilter(job.required_trust_level, users[w].trust_level)
    /\ near

ListJobs(r) ==
    /\ ~InFlight(r)
    /\ \E w \in Workers, near \in BOOLEAN :
          Answer(r, Arrive("list", w), 200, IF Listed(w, near) THEN {job.id} ELSE {})
    /\ UNCHANGED <<job, deliverables, transactions, messages, users, agents,
                   ledger, storage, nextFile, reviews, keeper, room, limiter>>

\* --------------------------------------------------- worker: GET /jobs/:id
\* SELECT j.*, ... FROM jobs j LEFT JOIN users u ... WHERE j.id = ?
GetRowFound == job.id # NULL

GetRead(r) ==
    /\ CanArrive(r)
    /\ \E w \in Workers : LET q == Arrive("get", w) IN
       IF ~GetRowFound
         THEN Fail(r, q, 404)
         ELSE IF job.worker_id = w
         THEN Proceed(r, [q EXCEPT !.pc = "deliverables", !.snap = Snapshot])
         ELSE Answer(r, q, 200, {job.id})
    /\ UNCHANGED <<job, deliverables, transactions, messages, users, agents,
                   ledger, storage, nextFile, reviews, keeper, room, limiter>>

\* if (job.worker_id === user.id) SELECT * FROM job_deliverables ...; return json({ job })
GetDeliverables(r) ==
    /\ At(r, "get", "deliverables")
    /\ Answer(r, req[r], 200, {job.id})
    /\ UNCHANGED <<job, deliverables, transactions, messages, users, agents,
                   ledger, storage, nextFile, reviews, keeper, room, limiter>>

\* ---------------------------------------------- agent: GET /agent/jobs/:id
\* SELECT ... FROM jobs j LEFT JOIN users u ... WHERE j.id = ? AND j.agent_id = ?
AgentGet(r) ==
    /\ ~InFlight(r)
    /\ \E a \in Agents : LET q == Arrive("agent_get", a) IN
       IF job.agent_id # a
         THEN Fail(r, q, 404)
         ELSE Answer(r, q, 200, {job.id})
    /\ UNCHANGED <<job, deliverables, transactions, messages, users, agents,
                   ledger, storage, nextFile, reviews, keeper, room, limiter>>

\* ---------------------------------------- agent: POST /agent/jobs/:id/message
\* the lookup without the agent_id condition
AgentMessageRowFound_AnyAgent(a) == job.id # NULL

\* SELECT id, agent_id, worker_id FROM jobs WHERE id = ? AND agent_id = ?
AgentMessageRowFound(a) == job.agent_id = a

\* body.message is required (400); the row is read (404); a job without a worker
\* takes no message (400)
AgentMessageRead(r) ==
    /\ CanArrive(r)
    /\ \E a \in Agents, text \in {NULL, "text"} : LET q == Arrive("message", a) IN
       IF text = NULL
         THEN Fail(r, q, 400)
         ELSE IF ~AgentMessageRowFound(a)
         THEN Fail(r, q, 404)
         ELSE IF job.worker_id = NULL
         THEN Fail(r, q, 400)
         ELSE Proceed(r, [q EXCEPT !.pc = "insert", !.snap = Snapshot])
    /\ UNCHANGED <<job, deliverables, transactions, messages, users, agents,
                   ledger, storage, nextFile, reviews, keeper, room, limiter>>

\* INSERT INTO messages (..., job.worker_id, agent.id, 'agent', body.message,
\*   body.message_type || 'text')
AgentMessageInsert(r) ==
    /\ At(r, "message", "insert")
    /\ messages' = Append(messages, [Message(r, "text") EXCEPT !.message_type = "text"])
    /\ Finish(r, 200)
    /\ UNCHANGED <<job, deliverables, transactions, users, agents, ledger, storage, nextFile,
                   reviews, keeper, room, limiter>>

\* ----------------------------------------- worker: POST /messages/:jobId/send
\* SELECT * FROM jobs WHERE id = ? AND worker_id = ?
SendRowFound(w) == job.worker_id = w

SendRead(r) ==
    /\ CanArrive(r)
    /\ \E w \in Workers, text \in {NULL, "text"} : LET q == Arrive("send", w) IN
       IF text = NULL
         THEN Fail(r, q, 400)
         ELSE IF ~SendRowFound(w)
         THEN Fail(r, q, 404)
         ELSE Proceed(r, [q EXCEPT !.pc = "insert", !.snap = Snapshot])
    /\ UNCHANGED <<job, deliverables, transactions, messages, users, agents,
                   ledger, storage, nextFile, reviews, keeper, room, limiter>>

\* INSERT INTO messages (id, job_id, worker_id, agent_id, sender_type, message, ...)
\*   VALUES (?, ?, user.id, job.agent_id, 'worker', ?, ...)
SendInsert(r) ==
    /\ At(r, "send", "insert")
    /\ messages' = Append(messages,
                          [job_id |-> job.id, agent_id |-> job.agent_id,
                           worker_id |-> req[r].caller, sender_type |-> "worker",
                           message_type |-> "text", message |-> "text", is_read |-> FALSE])
    /\ Finish(r, 200)
    /\ UNCHANGED <<job, deliverables, transactions, users, agents, ledger, storage, nextFile,
                   reviews, keeper, room, limiter>>

\* ----------------------------------------- agent: POST /agent/jobs/:id/review
\* ratings of a request body; 6 is out of range
Ratings == {3, 5, 6}

\* SELECT * FROM jobs WHERE id = ? AND agent_id = ? AND status = 'completed'
ReviewRowFound(a) == job.agent_id = a /\ job.status = "completed"

ReviewRead(r) ==
    /\ CanArrive(r)
    /\ \E a \in Agents, rating \in Ratings : LET q == Arrive("review", a) IN
       IF rating = 0 \/ rating < 1 \/ rating > 5
         THEN Fail(r, q, 400)
         ELSE IF ~ReviewRowFound(a)
         THEN Fail(r, q, 404)
         ELSE Proceed(r, [q EXCEPT !.pc = "existing", !.rating = rating, !.snap = Snapshot])
    /\ UNCHANGED <<job, deliverables, transactions, messages, users, agents,
                   ledger, storage, nextFile, reviews, keeper, room, limiter>>

\* SELECT id FROM reviews WHERE job_id = ?; if (existing) return error(409, ...)
ReviewExisting(r) ==
    /\ At(r, "review", "existing")
    /\ IF \E i \in DOMAIN reviews : reviews[i].job_id = job.id
         THEN Finish(r, 409)
         ELSE Goto(r, "insert")
    /\ UNCHANGED <<job, deliverables, transactions, messages, users, agents,
                   ledger, storage, nextFile, reviews, keeper, room, limiter>>

\* INSERT INTO reviews (id, job_id, worker_id, reviewer_id, rating, comment);
\* worker_id is NOT NULL: the statement throws for a job without a worker (500)
ReviewInsert(r) ==
    /\ At(r, "review", "insert")
    /\ IF req[r].snap.worker_id = NULL
         THEN reviews' = reviews /\ Finish(r, 500)
         ELSE /\ reviews' = Append(reviews, [job_id |-> job.id,
                                             worker_id |-> req[r].snap.worker_id,
                                             reviewer_id |-> req[r].caller,
                                             rating |-> req[r].rating])
              /\ Goto(r, "user")
    /\ UNCHANGED <<job, deliverables, transactions, messages, users, agents,
                   ledger, storage, nextFile, keeper, room, limiter>>

\* the plain mean of the old rating and the new one
newRating_Unweighted(u, rating) ==
    [num |-> u.rating.num + rating * u.rating.den,
     den |-> u.rating.den * 2]

\* (rating * rating_count + ?) / (rating_count + 1) as a fraction num / den
newRating(u, rating) ==
    [num |-> u.rating.num * u.rating_count + rating * u.rating.den,
     den |-> u.rating.den * (u.rating_count + 1)]

\* UPDATE users SET rating = (rating * rating_count + ?) / (rating_count + 1),
\*   rating_count = rating_count + 1 WHERE id = job.worker_id
ReviewUser(r) ==
    /\ At(r, "review", "user")
    /\ LET w == req[r].snap.worker_id IN
       users' = [users EXCEPT ![w].rating = newRating(users[w], req[r].rating),
                              ![w].rating_count = @ + 1]
    /\ Finish(r, 200)
    /\ UNCHANGED <<job, deliverables, transactions, messages, agents,
                   ledger, storage, nextFile, reviews, keeper, room, limiter>>

\* ------------------------------------------------------------- environment
\* expires_at passes
Expire ==
    /\ job.id # NULL /\ ~job.expired
    /\ job' = [job EXCEPT !.expired = TRUE]
    /\ resp' = NoResp /\ out' = {}
    /\ UNCHANGED <<deliverables, transactions, messages, users, agents, ledger, storage,
                   nextFile, admitted, req, reviews, keeper, room, limiter>>

\* the escrow service answers fetch with ok, with !ok, or not at all
KeeperStates == {"up", "refusing", "down"}

KeeperChange ==
    /\ \E k \in KeeperStates \ {keeper} : keeper' = k
    /\ resp' = NoResp /\ out' = {}
    /\ UNCHANGED <<job, deliverables, transactions, messages, users, agents, ledger,
                   storage, nextFile, admitted, req, reviews, room, limiter>>

\* --------------------------------------------- the job board, one request at a time
\* no job has been created; w1's tier is any of the three
InitBoard ==
    /\ job = NoJob
    /\ \E level \in Tiers :
          users = [w \in Workers |-> NewUser(IF w = "w1" THEN level ELSE trust_level[w])]
    /\ agents = [a \in Agents |-> NewAgent]
    /\ keeper = "up"
    /\ Fresh

\* job creation, the listing, the reads by id and the accept
NextBoard ==
    LET r == "r1" IN
       \/ CreateRead(r) \/ CreateHold(r) \/ CreateInsert(r) \/ CreateCount(r)
       \/ CreateSelect(r)
       \/ ListJobs(r) \/ GetRead(r) \/ GetDeliverables(r) \/ AgentGet(r)
       \/ AcceptRead(r) \/ AcceptWrite(r)
       \/ Expire \/ KeeperChange

SpecBoard == InitBoard /\ [][NextBoard]_vars

\* ------------------------------- an accepted job, one request at a time
\* a1 has created the job and w1 has accepted it
InitSettle ==
    /\ job = [NewJob("a1", "verified", HoldId) EXCEPT !.status = "assigned",
                                                      !.worker_id = "w1",
                                                      !.assigned_at = TRUE]
    /\ users = [w \in Workers |-> NewUser(trust_level[w])]
    /\ agents = [a \in Agents |-> IF a = "a1" THEN [NewAgent EXCEPT !.jobs_created = 1]
                                             ELSE NewAgent]
    /\ keeper = "up"
    /\ Fresh

\* the requests on a job from its start to its approval, rejection or cancellation
Lifecycle(r) ==
       \/ StartRead(r) \/ StartWrite(r)
       \/ UploadRead(r) \/ UploadPut(r) \/ UploadInsert(r)
       \/ CompleteRead(r) \/ CompleteCount(r) \/ CompleteWrite(r)
       \/ ApproveRead(r) \/ ApproveRelease(r) \/ ApproveUpdate(r) \/ ApproveTxn(r)
       \/ ApproveTip(r) \/ ApproveUser(r) \/ ApproveAgent(r)
       \/ RejectRead(r) \/ RejectKeep(r) \/ RejectRelease(r) \/ RejectSelect(r)
       \/ RejectDeleteObject(r) \/ RejectDeleteRows(r) \/ RejectMessage(r)
       \/ CancelRead(r) \/ CancelVoid(r) \/ CancelTxn(r) \/ CancelEarn(r)
       \/ CancelUpdate(r) \/ CancelMessage(r)

\* the lifecycle against an escrow service that fails and recovers
NextSettle == Lifecycle("r1") \/ KeeperChange

SpecSettle == InitSettle /\ [][NextSettle]_vars

\* the lifecycle with the messages and the review of the job
NextAccess ==
    LET r == "r1" IN
       \/ Lifecycle(r)
       \/ AgentMessageRead(r) \/ AgentMessageInsert(r) \/ SendRead(r) \/ SendInsert(r)
       \/ ReviewRead(r) \/ ReviewExisting(r) \/ ReviewInsert(r) \/ ReviewUser(r)

SpecAccess == InitSettle /\ [][NextAccess]_vars

\* ------------------------------------- reviews of a completed job, two at a time
\* w1 has done the job, a1 has approved it without a tip and w1 has been paid
InitReview ==
    /\ job = [NewJob("a1", "verified", HoldId) EXCEPT
                 !.status = "completed", !.worker_id = "w1", !.assigned_at = TRUE,
                 !.started_at = TRUE, !.submitted_at = TRUE, !.completed_at = TRUE]
    /\ users = [w \in Workers |->
                  IF w = "w1" THEN [NewUser(trust_level[w]) EXCEPT
                                       !.jobs_completed = 1, !.total_earned = PaymentAmount]
                              ELSE NewUser(trust_level[w])]
    /\ agents = [a \in Agents |->
                   IF a = "a1" THEN [jobs_created |-> 1, jobs_completed |-> 1,
                                     total_spent_sats |-> PaymentAmount]
                               ELSE NewAgent]
    /\ keeper = "up"
    /\ deliverables = <<[job_id |-> "job1", worker_id |-> "w1", file_url |-> 1]>>
    /\ transactions = <<[user_id |-> "w1", type |-> "job_payment",
                         amount |-> PaymentAmount, job_id |-> "job1",
                         status |-> "completed"]>>
    /\ messages = <<>> /\ reviews = <<>>
    /\ ledger = <<[op |-> "release", hold_id |-> HoldId, refund_percent |-> 0,
                   answer |-> "up"]>>
    /\ storage = {1}
    /\ nextFile = 2
    /\ req = [r \in ReqIds |-> Idle]
    /\ admitted = 0 /\ resp = NoResp /\ out = {}
    /\ NewRoom /\ NewLimiter

NextReview ==
    \E r \in ReqIds :
       \/ ReviewRead(r) \/ ReviewExisting(r) \/ ReviewInsert(r) \/ ReviewUser(r)

SpecReview == InitReview /\ [][NextReview]_vars

\* ------------------------------------------ the rating of a worker over its reviews
\* a worker without reviews: rating 0.0 and rating_count 0
InitRating ==
    /\ job = NoJob
    /\ users = [w \in Workers |-> NewUser(trust_level[w])]
    /\ agents = [a \in Agents |-> NewAgent]
    /\ keeper = "up"
    /\ Fresh

\* the review of one more completed job of worker w1 is stored and the UPDATE of
\* users applies the average to it
RateWorker ==
    /\ Len(reviews) < MaxReviews
    /\ \E rating \in 1..5 :
          /\ reviews' = Append(reviews, [job_id |-> Len(reviews) + 1, worker_id |-> "w1",
                                         reviewer_id |-> "a1", rating |-> rating])
          /\ users' = [users EXCEPT !["w1"].rating = newRating(users["w1"], rating),
                                    !["w1"].rating_count = @ + 1]
    /\ UNCHANGED <<job, deliverables, transactions, messages, agents, ledger, storage,
                   nextFile, admitted, req, resp, out, keeper, room, limiter>>

SpecRating == InitRating /\ [][RateWorker]_vars

\* nothing has been created, no counter stored, no session connected
InitLimit ==
    /\ job = NoJob
    /\ users = [w \in Workers |-> NewUser(trust_level[w])]
    /\ agents = [a \in Agents |-> NewAgent]
    /\ keeper = "up"
    /\ Fresh

\* ------------------------------------------------------------------ JobsRoom
\* const timeout = 60000 and the interval of 30000, in sweep periods
Timeout == 2

Registered(s) == sessions[s].userId # NULL
Registry == {s \in SessionIds : Registered(s)}

\* webSocket.send(data) delivers on an open socket and throws on any other
Delivered(targets, type) ==
    {[to |-> s, type |-> type] : s \in {t \in targets : sockets[t] = "open"}}

\* webSocket.close(code, reason) on the sockets of set targets: a close frame each
Closed(targets) == {[to |-> s, type |-> "close"] : s \in targets}

\* this.sessions.delete(sessionId) for the sessions of set gone
Without(gone) == [s \in SessionIds |-> IF s \in gone THEN NoSession ELSE sessions[s]]

RoomOnly == UNCHANGED <<db, ledger, storage, nextFile, admitted, req, resp, out, keeper,
                        limiter>>

\* crypto.randomUUID() gives an id no live session or socket has; the model takes
\* the first such id
FreeIds == {s \in SessionIds \ Registry : sockets[s] # "open"}

\* a connect that sets a timer whether or not one is running
started_Always(timers) == timers + 1

\* if (!this.pingInterval) this.startPingInterval(): the timers running afterwards
started(timers) == IF timers = 0 THEN 1 ELSE timers

\* fetch(request): 400 without the Upgrade header, 401 without userId or token;
\* otherwise the socket is accepted, the session stored, `connected` sent and the
\* sweep timer started if it is not running
Connect ==
    /\ \E upgrade \in BOOLEAN, u \in Workers \cup {NULL} :
         IF ~upgrade \/ u = NULL
           THEN /\ did' = [op |-> "fetch", arg |-> IF upgrade THEN 401 ELSE 400,
                           session |-> NULL]
                /\ sent' = {}
                /\ UNCHANGED <<sessions, pingInterval, sockets>>
           ELSE \E s \in FreeIds :
                /\ \A t \in FreeIds : sessionNo[s] <= sessionNo[t]
                /\ sessions' = [sessions EXCEPT ![s] = [userId |-> u, lastPing |-> clock]]
                /\ sockets' = [sockets EXCEPT ![s] = "open"]
                /\ sent' = {[to |-> s, type |-> "connected"]}
                /\ pingInterval' = started(pingInterval)
                /\ did' = [op |-> "fetch", arg |-> 101, session |-> s]
    /\ clock' = clock
    /\ RoomOnly

\* the frames a client sends: the three kinds, another kind, JSON without a type,
\* an ArrayBuffer, text that JSON.parse rejects
Kinds == {"ping", "subscribe_job", "unsubscribe_job", "other", "untyped", "binary",
          "garbage"}

\* a switch whose default case acknowledges instead of reporting an error
Reply_AckUnknown(kind) ==
    CASE kind = "ping" -> "pong"
      [] kind = "unsubscribe_job" -> "unsubscribed"
      [] kind \in {"untyped", "binary", "garbage"} -> "error"
      [] OTHER -> "subscribed"

\* the frame webSocketMessage answers a frame of this kind with
Reply(kind) ==
    CASE kind = "ping" -> "pong"
      [] kind = "subscribe_job" -> "subscribed"
      [] kind = "unsubscribe_job" -> "unsubscribed"
      [] OTHER -> "error"

\* webSocketMessage(ws, message)
webSocketMessage(s) ==
    /\ sockets[s] = "open"
    /\ \E kind \in Kinds :
         /\ did' = [op |-> "webSocketMessage", arg |-> kind, session |-> s]
         /\ IF ~Registered(s)
              THEN /\ sockets' = [sockets EXCEPT ![s] = "closed"]
                   /\ sent' = Closed({s})
                   /\ sessions' = sessions
              ELSE /\ sockets' = sockets
                   /\ sent' = {[to |-> s, type |-> Reply(kind)]}
                   /\ sessions' = IF kind = "ping"
                                    THEN [sessions EXCEPT ![s].lastPing = clock]
                                    ELSE sessions
    /\ UNCHANGED <<pingInterval, clock>>
    /\ RoomOnly

\* webSocketClose(ws, code, reason): the client has closed the connection
webSocketClose(s) ==
    /\ sockets[s] \in {"open", "broken"}
    /\ sockets' = [sockets EXCEPT ![s] = "closed"]
    /\ sessions' = Without({s})
    /\ pingInterval' = IF Registry \ {s} = {} /\ pingInterval > 0
                       THEN pingInterval - 1 ELSE pingInterval
    /\ sent' = {}
    /\ did' = [op |-> "webSocketClose", arg |-> NULL, session |-> s]
    /\ clock' = clock
    /\ RoomOnly

\* webSocketError(ws, error): ws.close(1011, ...)
webSocketError(s) ==
    /\ sockets[s] = "broken"
    /\ sockets' = [sockets EXCEPT ![s] = "closed"]
    /\ sent' = Closed({s})
    /\ did' = [op |-> "webSocketError", arg |-> NULL, session |-> s]
    /\ UNCHANGED <<sessions, pingInterval, clock>>
    /\ RoomOnly

\* the connection of a client is lost without a close frame
Break(s) ==
    /\ sockets[s] = "open"
    /\ sockets' = [sockets EXCEPT ![s] = "broken"]
    /\ sent' = {}
    /\ did' = NoCall
    /\ UNCHANGED <<sessions, pingInterval, clock>>
    /\ RoomOnly

\* a sweep period passes
Tick ==
    /\ clock < MaxTime
    /\ clock' = clock + 1
    /\ sent' = {}
    /\ did' = NoCall
    /\ UNCHANGED <<sessions, pingInterval, sockets>>
    /\ RoomOnly

\* a staleness test that spares every session
Stale_Never(s) == FALSE

\* now - session.lastPing > timeout
Stale(s) == clock - sessions[s].lastPing > Timeout

\* the callback of setInterval: stale sessions are closed and deleted, the others are
\* sent a ping and deleted if the send throws
Sweep ==
    /\ pingInterval > 0
    /\ LET stale == {s \in Registry : Stale(s)}
           failed == {s \in Registry \ stale : sockets[s] # "open"}
       IN
       /\ sockets' = [s \in SessionIds |-> IF s \in stale THEN "closed" ELSE sockets[s]]
       /\ sessions' = Without(stale \cup failed)
       /\ sent' = Delivered(Registry \ stale, "ping") \cup Closed(stale)
    /\ did' = [op |-> "sweep", arg |-> NULL, session |-> NULL]
    /\ UNCHANGED <<pingInterval, clock>>
    /\ RoomOnly

\* the sessions the loop of broadcast sends to: all but those of excludeUserId
broadcastTargets(excludeUserId) ==
    {s \in Registry : ~(excludeUserId # NULL /\ sessions[s].userId = excludeUserId)}

\* a loop of sendToUser without the test of session.userId
userTargets_All(userId) == Registry

\* the sessions the loop of sendToUser sends to
userTargets(userId) == {s \in Registry : sessions[s].userId = userId}

\* broadcast(message, excludeUserId)
broadcast(type, excludeUserId) == sent' = Delivered(broadcastTargets(excludeUserId), type)

\* sendToUser(userId, message)
sendToUser(userId, type) == sent' = Delivered(userTargets(userId), type)

Broadcast ==
    /\ \E excludeUserId \in Workers \cup {NULL} :
         /\ broadcast("broadcast", excludeUserId)
         /\ did' = [op |-> "broadcast", arg |-> excludeUserId, session |-> NULL]
    /\ UNCHANGED <<sessions, pingInterval, clock, sockets>>
    /\ RoomOnly

\* notifyNewJob(job)
notifyNewJob ==
    /\ broadcast("new_job", NULL)
    /\ did' = [op |-> "notifyNewJob", arg |-> NULL, session |-> NULL]
    /\ UNCHANGED <<sessions, pingInterval, clock, sockets>>
    /\ RoomOnly

\* notifyJobUpdate(jobId, status, workerId?)
notifyJobUpdate ==
    /\ \E workerId \in Workers \cup {NULL} :
         /\ IF workerId # NULL THEN sendToUser(workerId, "job_update")
                               ELSE broadcast("job_update", NULL)
         /\ did' = [op |-> "notifyJobUpdate", arg |-> workerId, session |-> NULL]
    /\ UNCHANGED <<sessions, pingInterval, clock, sockets>>
    /\ RoomOnly

\* notifyNewMessage(message, recipientId)
notifyNewMessage ==
    /\ \E recipientId \in Workers :
         /\ sendToUser(recipientId, "new_message")
         /\ did' = [op |-> "notifyNewMessage", arg |-> recipientId, session |-> NULL]
    /\ UNCHANGED <<sessions, pingInterval, clock, sockets>>
    /\ RoomOnly

\* the sessions of the room: connects, frames, disconnects and the sweep
NextRoom ==
    \/ Connect \/ Tick \/ Sweep
    \/ \E s \in SessionIds :
          webSocketMessage(s) \/ webSocketClose(s) \/ webSocketError(s) \/ Break(s)

SpecRoom == InitLimit /\ [][NextRoom]_vars

\* the notifications of the room to the sessions that come and go
NextNotify ==
    \/ Connect
    \/ Broadcast \/ notifyNewJob \/ notifyJobUpdate \/ notifyNewMessage
    \/ \E s \in SessionIds : webSocketClose(s) \/ Break(s)

SpecNotify == InitLimit /\ [][NextNotify]_vars

\* ------------------------------------------------------------ rate limiter
\* const current = await env.SESSIONS.get(windowKey); count >= config.maxRequests is
\* answered 429, otherwise the run goes on to the put with its count
LimitRead(r) ==
    /\ rl[r].pc = "idle"
    /\ \E call \in Calls :
         LET a == call[1]
             route == call[2]
             k == windowKey(a, route)
             count == kv[k]
         IN
         /\ served[a][route] < RATE_LIMITS[category(route)] + MaxOver
         /\ IF count >= RATE_LIMITS[category(route)]
              THEN /\ verdict' = [caller |-> a, route |-> route, code |-> 429]
                   /\ rl' = rl
              ELSE /\ verdict' = NoVerdict
                   /\ rl' = [rl EXCEPT ![r] = [pc |-> "put", caller |-> a,
                                               route |-> route, count |-> count]]
    /\ UNCHANGED <<kv, served>>
    /\ UNCHANGED <<db, ledger, storage, nextFile, admitted, req, resp, out, keeper, room>>

\* await env.SESSIONS.put(windowKey, String(count + 1), ...); the middleware returns
\* nothing and the router calls the route handler
LimitPut(r) ==
    /\ rl[r].pc = "put"
    /\ LET a == rl[r].caller
           route == rl[r].route
       IN
       /\ kv' = [kv EXCEPT ![windowKey(a, route)] = rl[r].count + 1]
       /\ served' = [served EXCEPT ![a][route] = @ + 1]
       /\ verdict' = [caller |-> a, route |-> route, code |-> 200]
    /\ rl' = [rl EXCEPT ![r] = NoRun]
    /\ UNCHANGED <<db, ledger, storage, nextFile, admitted, req, resp, out, keeper, room>>

NextLimit == \E r \in ReqIds : LimitRead(r) \/ LimitPut(r)

SpecLimit == InitLimit /\ [][NextLimit]_vars

\* ------------------------------------------------------------------ claims
\* the status each lifecycle operation requires of the row it reads
Pre == [accept |-> "available", start |-> "assigned", complete |-> "in_progress",
        approve |-> "submitted", reject |-> "submitted"]

\* this step, a request of operation op got past the row check of its handler
Admits(op) == \E r \in ReqIds : ~InFlight(r) /\ req'[r].pc # "idle" /\ req'[r].op = op

\* this step, a request of operation op was answered at the row check of its handler
Refused(op) == req' = req /\ resp'.op = op

\* this step is a step of request r
Steps(r) == InFlight(r) /\ req'[r] # req[r]

\* this step, request r returns its response
Returns(r) == InFlight(r) /\ req'[r].pc = "idle"

JobPayments == {i \in DOMAIN transactions : transactions[i].type = "job_payment"}
Bonuses == {i \in DOMAIN transactions : transactions[i].type = "bonus"}

\* C1: a lifecycle operation (accept, start, complete, approve, reject) that reads the
\* job in a status other than its precondition status is never admitted; it is answered
\* with an error and the job, deliverables, transactions, messages and the worker and
\* agent counters (and the ledger and the bucket) are left as they were.  A second
\* approve after a finished approve is such a request: it adds no transaction.
C1_StatusMismatchFails ==
    [][/\ \A r \in ReqIds :
            (~InFlight(r) /\ InFlight(r)' /\ req'[r].op \in DOMAIN Pre)
               => job.status = Pre[req'[r].op]
       /\ (req' = req /\ resp'.op \in DOMAIN Pre /\ job.status # Pre[resp'.op])
               => /\ resp'.code >= 400
                  /\ db' = db /\ ledger' = ledger /\ storage' = storage]_vars

\* C1 witness: the job is completed and paid, and a further approve was just refused
C1_SecondApproveRefused ==
    /\ job.status = "completed"
    /\ Len(transactions) = 1
    /\ Quiescent
    /\ resp = [op |-> "approve", caller |-> "a1", code |-> 404]

\* C2: approves of one submission never pay twice: the job has at most one job_payment
\* transaction of the full payment_amount, and no worker's jobs_completed exceeds one.
C2_OneApproveWins ==
    /\ Cardinality({i \in JobPayments : transactions[i].amount = job.payment_amount}) <= 1
    /\ \A w \in Workers : users[w].jobs_completed <= 1

\* C3: when an accept reports success to a worker, the job was not already assigned to
\* another worker (who was told 'accepted' when the job was assigned to them).
C3_OneAcceptWins ==
    [][\A r \in ReqIds : (At(r, "accept", "write") /\ Returns(r) /\ resp'.code = 200)
          => job.worker_id \in {NULL, req[r].caller}]_vars

\* the documented edges of the job status
DocumentedEdges ==
    { <<"available", "assigned">>, <<"assigned", "in_progress">>,
      <<"in_progress", "submitted">>, <<"submitted", "completed">>,
      <<"submitted", "in_progress">>, <<"submitted", "available">>,
      <<"available", "cancelled">>, <<"assigned", "cancelled">>,
      <<"in_progress", "cancelled">> }

\* C4: every change of the stored status is a documented edge (so completed and
\* cancelled are never left).
C4_OnlyDocumentedEdges ==
    [][job'.status # job.status => <<job.status, job'.status>> \in DocumentedEdges]_vars

\* C5: with no request in flight, a completed job has exactly one job_payment
\* transaction, for the job's worker and of the job's payment_amount, and at most one
\* bonus transaction.
C5_CompletedPaidOnce ==
    (Quiescent /\ job.status = "completed") =>
        /\ Cardinality(JobPayments) = 1
        /\ \A i \in JobPayments : /\ transactions[i].user_id = job.worker_id
                                  /\ transactions[i].amount = job.payment_amount
        /\ Cardinality(Bonuses) <= 1

\* C6: completed_at is set if and only if the status is completed.
C6_CompletedAtIffCompleted == job.completed_at <=> job.status = "completed"

\* C7: a job that is assigned, in_progress, submitted or completed has a worker_id,
\* and an available job has none.
C7_WorkerIdMatchesStatus ==
    /\ job.status \in {"assigned", "in_progress", "submitted", "completed"}
          => job.worker_id # NULL
    /\ job.status = "available" => job.worker_id = NULL

\* C8: a cancel that read the job in_progress voids the hold with refund_percent 50,
\* inserts exactly one job_payment transaction of half the payment_amount for the
\* worker of the row it read and adds that amount to that worker's total_earned; a
\* cancel that read the job available or assigned voids with refund_percent 100,
\* inserts no transaction and changes no total_earned.  Every cancel that gets past
\* its checks returns 200 and its UPDATE leaves status cancelled.
C8_CancelCompensation ==
    [][\A r \in ReqIds : req[r].op = "cancel" =>
        LET s == req[r].snap
            fx == req[r].fx
            w == s.worker_id
        IN
        /\ (Steps(r) /\ req[r].pc = "void") =>
              ledger' = Append(ledger, [op |-> "void", hold_id |-> job.escrow_hold_id,
                           refund_percent |-> IF s.status = "in_progress" THEN 50 ELSE 100,
                           answer |-> "up"])
        /\ (Steps(r) /\ req[r].pc = "txn") =>
              /\ Len(transactions') = Len(transactions) + 1
              /\ 2 * transactions'[Len(transactions')].amount = job.payment_amount
        /\ (Steps(r) /\ req[r].pc = "earn") =>
              /\ 2 * users'[w].total_earned = 2 * users[w].total_earned + job.payment_amount
              /\ \A u \in Workers \ {w} : users'[u] = users[u]
        /\ (Steps(r) /\ s.status \in {"available", "assigned"}) =>
              transactions' = transactions /\ users' = users
        /\ (Steps(r) /\ req[r].pc = "update") => job'.status = "cancelled"
        /\ Returns(r) =>
              /\ resp'.code = 200
              /\ s.status \in {"available", "assigned", "in_progress"}
              /\ fx.voids = <<IF s.status = "in_progress" THEN 50 ELSE 100>>
              /\ s.status = "in_progress" =>
                    /\ Len(fx.txns) = 1
                    /\ fx.txns[1].type = "job_payment"
                    /\ fx.txns[1].user_id = w
                    /\ 2 * fx.txns[1].amount = job.payment_amount
                    /\ 2 * fx.earned = job.payment_amount
              /\ s.status \in {"available", "assigned"} =>
                    fx.txns = <<>> /\ fx.earned = 0]_vars

\* C8 witness: a cancel of the in_progress job has returned 200: the job is cancelled,
\* the worker holds the one compensation transaction and the hold was voided at 50
C8_InProgressCancelled ==
    /\ resp = [op |-> "cancel", caller |-> "a1", code |-> 200]
    /\ job.status = "cancelled"
    /\ job.started_at
    /\ Len(transactions) = 1
    /\ 2 * transactions[1].amount = job.payment_amount
    /\ job.worker_id # NULL
    /\ users[job.worker_id].total_earned = transactions[1].amount
    /\ ledger = <<[op |-> "void", hold_id |-> HoldId, refund_percent |-> 50,
                 answer |-> "up"]>>

\* C9: a cancel on a job whose status is submitted, completed or cancelled is never
\* admitted; the owning agent is answered 409, and the job, transactions, messages,
\* counters and the ledger (no void call) are left as they were.
C9_CancelRefused ==
    [][job.status \in {"submitted", "completed", "cancelled"} =>
          /\ ~Admits("cancel")
          /\ (Refused("cancel") /\ resp'.caller = job.agent_id) =>
                /\ resp'.code = 409
                /\ db' = db /\ ledger' = ledger /\ storage' = storage]_vars

\* C9 witness: the owning agent's cancel of the submitted job was just answered 409
C9_SubmittedCancelRefused ==
    /\ job.status = "submitted"
    /\ resp = [op |-> "cancel", caller |-> "a1", code |-> 409]
    /\ ledger = <<>>

\* C10: a reject with keep_assigned=true is admitted only on a submitted job; its UPDATE
\* sets status in_progress, clears submitted_at, adds one to rejection_count and records
\* the reason; no step of the request changes worker_id, assigned_at, started_at or the
\* deliverables; it returns 200.
C10_RejectKeepAssigned ==
    [][\A r \in ReqIds : (req[r].op = "reject" /\ req[r].keep /\ Steps(r)) =>
          /\ req[r].snap.status = "submitted"
          /\ req[r].pc = "keep" =>
                /\ job'.status = "in_progress"
                /\ job'.submitted_at = FALSE
                /\ job'.rejection_count = job.rejection_count + 1
                /\ job'.last_rejection_reason = req[r].reason /\ req[r].reason # NULL
          /\ job'.worker_id = job.worker_id
          /\ job'.assigned_at = job.assigned_at
          /\ job'.started_at = job.started_at
          /\ deliverables' = deliverables
          /\ Returns(r) => resp'.code = 200]_vars

\* C10 witness: the submitted job was sent back to its worker by a reject
C10_SentBack ==
    /\ resp = [op |-> "reject", caller |-> "a1", code |-> 200]
    /\ job.status = "in_progress"
    /\ job.worker_id # NULL /\ job.assigned_at /\ job.started_at
    /\ ~job.submitted_at
    /\ job.rejection_count = 1
    /\ Len(deliverables) = 1

\* C11: a reject with keep_assigned=false sets status available, clears worker_id,
\* assigned_at, started_at and submitted_at and adds one to rejection_count; its DELETE
\* leaves the job without deliverable rows, a storage delete was issued for every row
\* that DELETE removes, and it returns 200 whether or not the storage deletes failed.
C11_RejectRelease ==
    [][\A r \in ReqIds : (req[r].op = "reject" /\ ~req[r].keep /\ Steps(r)) =>
          /\ req[r].pc = "release" =>
                /\ job'.status = "available" /\ job'.worker_id = NULL
                /\ ~job'.assigned_at /\ ~job'.started_at /\ ~job'.submitted_at
                /\ job'.rejection_count = job.rejection_count + 1
          /\ (req[r].pc = "cleanup" /\ req[r].todo = <<>>) =>
                /\ deliverables' = <<>>
                /\ \A i \in DOMAIN deliverables :
                      deliverables[i].file_url \in req[r].fx.dels
          /\ Returns(r) => resp'.code = 200]_vars

\* C11 witness: a reject released the job to the pool and removed its deliverable row
\* although the storage delete failed (the object is still in the bucket)
C11_ReleasedDespiteFailedDelete ==
    /\ resp = [op |-> "reject", caller |-> "a1", code |-> 200]
    /\ job.status = "available" /\ job.worker_id = NULL
    /\ ~job.assigned_at /\ ~job.started_at /\ ~job.submitted_at
    /\ job.rejection_count = 1
    /\ deliverables = <<>>
    /\ storage # {}

\* C12: a reject that returns 200 appends, in its last step, exactly one message of
\* type system addressed to the worker of the submitted row it read, and none of its
\* other steps touches the messages.
C12_RejectMessage ==
    [][\A r \in ReqIds : (req[r].op = "reject" /\ Steps(r)) =>
          IF Returns(r)
            THEN /\ resp'.code = 200
                 /\ req[r].snap.worker_id # NULL
                 /\ Len(messages') = Len(messages) + 1
                 /\ messages'[Len(messages')].message_type = "system"
                 /\ messages'[Len(messages')].worker_id = req[r].snap.worker_id
                 /\ messages'[Len(messages')].job_id = job.id
            ELSE messages' = messages]_vars

\* C12 witness: after a reject with keep_assigned=false the job has no worker and the
\* one message on the thread is the system message to the worker who had submitted
C12_MessageAfterRelease ==
    /\ resp = [op |-> "reject", caller |-> "a1", code |-> 200]
    /\ job.worker_id = NULL
    /\ Len(messages) = 1
    /\ messages[1].message_type = "system"
    /\ messages[1].worker_id \in Workers

\* C17: a complete gets past its row check only on an in_progress job of the calling
\* worker; with no deliverable row it is answered 400 and changes nothing; its UPDATE
\* sets status submitted and submitted_at; no step of it touches transactions or
\* total_earned; and with no request in flight a job that is available, assigned,
\* in_progress or submitted has no transaction.
C17_CompleteCreatesNoPayment ==
    [][/\ \A r \in ReqIds :
            /\ (~InFlight(r) /\ InFlight(r)' /\ req'[r].op = "complete") =>
                  job.status = "in_progress" /\ job.worker_id = req'[r].caller
            /\ (req[r].op = "complete" /\ Steps(r)) =>
                  /\ transactions' = transactions /\ users' = users
                  /\ (req[r].pc = "count" /\ deliverables = <<>>) =>
                        resp'.code = 400 /\ job' = job
                  /\ (req[r].pc = "count" /\ deliverables # <<>>) => ~Returns(r)
                  /\ req[r].pc = "write" =>
                        job'.status = "submitted" /\ job'.submitted_at /\ resp'.code = 200
       /\ (Quiescent' /\ job'.status \in {"available", "assigned", "in_progress", "submitted"})
             => transactions' = <<>>]_vars

\* C17 witness: a complete has just returned 200; the job is submitted and unpaid
C17_SubmittedUnpaid ==
    /\ resp = [op |-> "complete", caller |-> "w1", code |-> 200]
    /\ job.status = "submitted" /\ job.submitted_at
    /\ deliverables # <<>>
    /\ transactions = <<>>
    /\ users["w1"].total_earned = 0

\* C18: a deliverable row exists only for a job that has been started under its
\* current assignment: never while the job is available or assigned.
C18_DeliverablesOnlyAfterStart ==
    deliverables # <<>> => job.status \notin {"available", "assigned"}

\* C13: a failed ledger call (error response or unreachable service) during approve
\* or cancel does not end the request, and the request then finishes as it does with
\* a working ledger: approve answers 200 with the job completed, its payment
\* transaction written and the worker's counters raised; cancel answers 200 with the
\* job cancelled and, for a job that was in progress, its compensation written.
LedgerFailed(r) == req[r].escrow \in {"refusing", "down"}

C13_LedgerFailureTolerated ==
    [][\A r \in ReqIds :
         /\ (Steps(r) /\ (At(r, "approve", "release") \/ At(r, "cancel", "void")))
               => /\ InFlight(r)'
                  /\ req'[r].escrow = keeper
                  /\ Len(ledger') = Len(ledger) + 1
         /\ (Returns(r) /\ LedgerFailed(r) /\ req[r].op = "approve")
               => /\ resp'.code = 200
                  /\ job'.status = "completed"
                  /\ \E i \in DOMAIN req[r].fx.txns :
                        /\ req[r].fx.txns[i].type = "job_payment"
                        /\ req[r].fx.txns[i].amount = job.payment_amount
                        /\ req[r].fx.txns[i] \in Range(transactions)
                  /\ req[r].fx.earned = totalPaid(r)
                  /\ agents'[req[r].caller].jobs_completed
                        = agents[req[r].caller].jobs_completed + 1
         /\ (Returns(r) /\ LedgerFailed(r) /\ req[r].op = "cancel")
               => /\ resp'.code = 200
                  /\ job'.status = "cancelled"
                  /\ req[r].snap.status = "in_progress"
                        => /\ Len(req[r].fx.txns) = 1
                           /\ req[r].fx.txns[1].amount = compensation
                           /\ req[r].fx.earned = compensation]_vars

\* an approve has answered 200 and left the job completed and paid although its
\* release call found the ledger unreachable
C13_CompletedWithoutLedger ==
    /\ job.status = "completed"
    /\ resp.op = "approve" /\ resp.code = 200
    /\ ledger # <<>>
    /\ ledger[Len(ledger)].op = "release" /\ ledger[Len(ledger)].answer = "down"
    /\ Len(transactions) >= 1

\* C14: the INSERT of job creation runs only in a request whose ledger hold was
\* answered ok, and the row it writes is available, unassigned and carries the hold
\* id the ledger returned; a hold that is refused or cannot be reached ends the
\* request with a failure, and then no job row exists and no agent's jobs_created
\* has changed.
C14_CreateAfterHold ==
    [][\A r \in ReqIds : req[r].op = "create" =>
         /\ (Steps(r) /\ req[r].pc = "hold" /\ keeper # "up")
               => /\ Returns(r)
                  /\ resp'.code \in {402, 502}
                  /\ job' = NoJob
                  /\ agents' = agents
         /\ (job.id = NULL /\ job'.id # NULL)
               => /\ Steps(r) /\ req[r].pc = "insert"
                  /\ req[r].escrow = "up"
                  /\ ledger # <<>>
                  /\ ledger[Len(ledger)].op = "hold" /\ ledger[Len(ledger)].answer = "up"
                  /\ job'.status = "available"
                  /\ job'.worker_id = NULL
                  /\ job'.escrow_hold_id = ledger[Len(ledger)].hold_id
                  /\ job'.escrow_hold_id # NULL
         /\ (agents'[req[r].caller].jobs_created # agents[req[r].caller].jobs_created)
               => job.id # NULL]_vars

\* a create was refused by the ledger and left no row; a later one was funded and
\* answered 201 with the new job
C14_CreatedAfterRefusedHold ==
    /\ Len(ledger) = 2
    /\ ledger[1].op = "hold" /\ ledger[1].answer \in {"refusing", "down"}
    /\ ledger[2].op = "hold" /\ ledger[2].answer = "up"
    /\ resp.op = "create" /\ resp.code = 201
    /\ job.status = "available"
    /\ agents[job.agent_id].jobs_created = 1

\* C15: an accept on an available job is let through exactly when the worker's tier
\* is the job's required tier or a higher one in basic < verified < kyc_gold, and it
\* then answers 200 with the job assigned to the worker; a refused accept leaves the
\* job row as it was.
TierAtLeast(userLevel, required) ==
    /\ userLevel \in Tiers /\ required \in Tiers
    /\ trustLevels[userLevel] >= trustLevels[required]

C15_AcceptIffTier ==
    [][\A r \in ReqIds :
         /\ (~InFlight(r) /\ job.status = "available" /\ req'[r].op = "accept")
               => TierAtLeast(users[req'[r].caller].trust_level, job.required_trust_level)
         /\ (req' = req /\ resp'.op = "accept" /\ job.status = "available")
               => /\ ~TierAtLeast(users[resp'.caller].trust_level, job.required_trust_level)
                  /\ job' = job /\ job.worker_id = NULL
         /\ (Returns(r) /\ req[r].op = "accept")
               => /\ resp'.code = 200
                  /\ job'.status = "assigned" /\ job'.worker_id = req[r].caller]_vars

\* a worker of tier basic holds a job whose stored required level is not a tier
C15_BasicHoldsUntieredJob ==
    /\ job.status = "assigned"
    /\ job.required_trust_level \notin Tiers
    /\ users[job.worker_id].trust_level = "basic"
    /\ resp.op = "accept" /\ resp.code = 200

C20_GetScoped ==
    [][/\ (resp'.op = "get" /\ out' # {}) => job.worker_id = resp'.caller
       /\ (resp'.op = "agent_get" /\ out' # {}) => job.agent_id = resp'.caller
       /\ (resp'.op = "get" /\ job.worker_id # resp'.caller)
             => resp'.code = 404 /\ out' = {}]_vars

\* a worker has been given the record of a job that is assigned to another worker
C20_RecordReadByStranger ==
    /\ resp.op = "get" /\ resp.code = 200
    /\ out = {job.id}
    /\ job.worker_id \in Workers \ {resp.caller}

\* C19: a request of an agent operation (approve, reject, cancel, message, review) by
\* an agent that did not create the job, and a request of a worker operation (start,
\* upload, complete, send) by a worker the job is not assigned to, is answered with a
\* failure at the handler's lookup and changes no stored state; an approve or reject
\* that fails at the lookup is answered 404 whatever the reason.
AgentOps == {"approve", "reject", "cancel", "message", "review"}
WorkerOps == {"start", "upload", "complete", "send"}
Owner(op) == IF op \in AgentOps THEN job.agent_id ELSE job.worker_id

C21_OneReviewPerJob ==
    [][/\ \A r \in ReqIds :
             (~InFlight(r) /\ InFlight(r)' /\ req'[r].op = "review")
                => job.status = "completed" /\ job.agent_id = req'[r].caller
       /\ Len(reviews') <= 1
       /\ \A w \in Workers : users'[w].rating_count <= 1]_vars

\* two reviews of the one job are stored and both have been counted
C21_ReviewedTwice ==
    /\ Len(reviews) = 2
    /\ reviews[1].job_id = reviews[2].job_id
    /\ users["w1"].rating_count = 2
    /\ \A r \in ReqIds : ~InFlight(r)

\* C22: after the reviews of a worker, rating_count is their number and rating times
\* rating_count is the sum of their ratings, in whatever order they came; the ratings
\* 5, 3, 4 give the rating 4.
RECURSIVE SumRatings(_)
SumRatings(rs) == IF rs = <<>> THEN 0 ELSE rs[1].rating + SumRatings(Tail(rs))

C22_RatingIsMean ==
    LET u == users["w1"] IN
    /\ u.rating_count = Len(reviews)
    /\ u.rating.den > 0
    /\ u.rating.num * u.rating_count = SumRatings(reviews) * u.rating.den
    /\ (Len(reviews) = 3 /\ reviews[1].rating = 5 /\ reviews[2].rating = 3
                         /\ reviews[3].rating = 4)
          => u.rating.num = 4 * u.rating.den

\* the reviews 5, 3, 4 have been applied in this order
C22_FiveThreeFour ==
    /\ Len(reviews) = 3
    /\ reviews[1].rating = 5 /\ reviews[2].rating = 3 /\ reviews[3].rating = 4
    /\ users["w1"].rating_count = 3

\* C27: for every caller and category, no more requests than the category's quota are
\* let through to the route handler in the window, with the limiter's runs
\* interleaved in any way; a request that finds the stored count at the quota is
\* answered 429 and the handler is not called.
Quota(route) == RATE_LIMITS[category(route)]

C27_QuotaHolds ==
    [][/\ \A call \in Calls : served'[call[1]][call[2]] <= Quota(call[2])
       /\ (verdict'.code = 429 /\ rl' = rl)
             => /\ served' = served /\ kv' = kv
                /\ kv[windowKey(verdict'.caller, verdict'.route)] >= Quota(verdict'.route)]_vars

\* one caller has been let through more often than the quota of the category allows
C27_OverQuota ==
    /\ \E call \in Calls : served[call[1]][call[2]] > Quota(call[2])
    /\ verdict.code = 200
    /\ \A r \in ReqIds : rl[r].pc = "idle"

\* C28: POST /agent/jobs is counted in category job_create, whose quota is lower than
\* that of job_status, and no agent gets more job creations through to the handler in
\* a window than the job_create quota.
C28_CreateQuota ==
    /\ category("create") = "job_create"
    /\ RATE_LIMITS["job_create"] < RATE_LIMITS["job_status"]
    /\ \A a \in Agents : served[a]["create"] <= RATE_LIMITS["job_create"]

\* an agent has had more creations let through, one after the other, than the
\* job_create quota, counted under the key of category default
C28_CreatedBeyondQuota ==
    /\ served["a1"]["create"] > RATE_LIMITS["job_create"]
    /\ served["a1"]["create"] = kv[<<"a1", "default">>]
    /\ kv[<<"a1", "job_create">>] = 0
    /\ verdict = [caller |-> "a1", route |-> "create", code |-> 200]

\* C23: a sweep closes and removes every registered session whose last ping is older
\* than the timeout and sends it nothing but the close; a session whose last ping is within
\* the timeout and whose socket is open is kept and is sent a ping. A session that is
\* not in the registry is never delivered a frame and is no target of a broadcast or
\* of a send to a user.
Older(s) == clock - sessions[s].lastPing > Timeout

C24_NoTimerOnEmptyRoom ==
    [][/\ did'.op = "webSocketClose" => sessions'[did'.session] = NoSession
       /\ did'.op = "sweep" =>
             \A s \in Registry : (Older(s) \/ sockets[s] # "open") => ~Registered(s)'
       /\ Registry' = {} => pingInterval' = 0]_vars

\* the sweep has removed the last session and its timer is still set
C24_TimerOutlivesSessions ==
    /\ did.op = "sweep"
    /\ Registry = {}
    /\ pingInterval > 0

\* C25: a frame of a registered session is answered with exactly one frame and leaves
\* the session registered and its socket open: pong for ping, which also sets the
\* session's lastPing to now, subscribed and unsubscribed for the two subscription
\* kinds, and error for any other kind, a frame without a kind, a binary frame and
\* text that does not parse; only ping changes the registry.
C25_FramesAnswered ==
    [][(did'.op = "webSocketMessage" /\ sessions[did'.session] # NoSession) =>
         LET s == did'.session
             kind == did'.arg
         IN
         /\ sockets' = sockets /\ sockets[s] = "open"
         /\ pingInterval' = pingInterval
         /\ sent' = {[to |-> s,
                      type |-> IF kind = "ping" THEN "pong"
                               ELSE IF kind = "subscribe_job" THEN "subscribed"
                               ELSE IF kind = "unsubscribe_job" THEN "unsubscribed"
                               ELSE "error"]}
         /\ IF kind = "ping"
              THEN sessions' = [sessions EXCEPT ![s].lastPing = clock]
              ELSE sessions' = sessions]_vars

\* text that is no JSON has been answered with an error frame, and the session, whose
\* last ping is a period old, is still registered
C25_GarbageAnswered ==
    /\ did.op = "webSocketMessage" /\ did.arg = "garbage"
    /\ sent = {[to |-> did.session, type |-> "error"]}
    /\ sessions[did.session].userId # NULL
    /\ sessions[did.session].lastPing < clock
    /\ sockets[did.session] = "open"

\* C26: a new-message notification reaches every registered session of the recipient
\* whose socket takes the send, and no session of another user; a job update with a
\* worker id reaches that worker's sessions only, and without one every session; a
\* broadcast with an excluded user reaches every session but that user's; a session
\* whose send throws does not keep the frame from the others.
Takes(s) == sessions[s].userId # NULL /\ sockets[s] = "open"
ReachedBy(type) == {f.to : f \in {g \in sent' : g.type = type}}

C26_DeliveryTargets ==
    [][/\ did'.op = "notifyNewMessage" =>
             /\ ReachedBy("new_message")
                   = {s \in SessionIds : Takes(s) /\ sessions[s].userId = did'.arg}
             /\ \A f \in sent' : f.type = "new_message"
       /\ (did'.op = "notifyJobUpdate" /\ did'.arg # NULL) =>
             ReachedBy("job_update")
                = {s \in SessionIds : Takes(s) /\ sessions[s].userId = did'.arg}
       /\ (did'.op = "notifyJobUpdate" /\ did'.arg = NULL) =>
             ReachedBy("job_update") = {s \in SessionIds : Takes(s)}
       /\ did'.op = "notifyNewJob" =>
             ReachedBy("new_job") = {s \in SessionIds : Takes(s)}
       /\ did'.op = "broadcast" =>
             ReachedBy("broadcast")
                = {s \in SessionIds : Takes(s) /\ (did'.arg = NULL
                                                   \/ sessions[s].userId # did'.arg)}
       /\ did'.op \in {"notifyNewMessage", "notifyJobUpdate", "notifyNewJob", "broadcast"}
             => sessions' = sessions /\ sockets' = sockets
                                     /\ pingInterval' = pingInterval]_vars

\* a new message for a worker with two sessions, one of them broken, has reached the
\* working one and not the session of the other worker
C26_OnlyRecipientReached ==
    /\ did.op = "notifyNewMessage"
    /\ Cardinality(sent) = 1
    /\ \E a, b, c \in SessionIds :
          /\ sessions[a].userId = did.arg /\ sockets[a] = "open"
          /\ sessions[b].userId = did.arg /\ sockets[b] = "broken"
          /\ sessions[c].userId \notin {NULL, did.arg} /\ sockets[c] = "open"
          /\ sent = {[to |-> a, type |-> "new_message"]}

\* --------------------------------------------------------- worker: wallet routes
\* Minimum withdrawal amount is 10 USD
MinWithdrawal == 2000
\* values of body.amount of a withdrawal
WithdrawAmounts == {0, MinWithdrawal \div 2, MinWithdrawal}
\* what worker w1 earned with an earlier job
EarnedBefore == MinWithdrawal

RECURSIVE SumAmounts(_, _, _, _)
\* SELECT COALESCE(SUM(amount), 0) FROM transactions
\*  WHERE user_id = ? AND type IN types AND status IN statuses, over the first n rows
SumAmounts(w, types, statuses, n) ==
    IF n = 0 THEN 0
    ELSE SumAmounts(w, types, statuses, n - 1)
         + (IF /\ transactions[n].user_id = w
               /\ transactions[n].type \in types
               /\ transactions[n].status \in statuses
              THEN transactions[n].amount ELSE 0)

\* ... WHERE user_id = ? AND type = 'withdrawal' AND status = 'completed'
total_withdrawn(w) == SumAmounts(w, {"withdrawal"}, {"completed"}, Len(transactions))

\* ... WHERE user_id = ? AND type = 'withdrawal' AND status IN ('pending', 'completed')
total_requested(w) ==
    SumAmounts(w, {"withdrawal"}, {"pending", "completed"}, Len(transactions))

\* SELECT COALESCE(SUM(payment_amount), 0) FROM jobs
\*  WHERE worker_id = ? AND status = 'submitted'
pendingEarnings(w) ==
    IF job.worker_id = w /\ job.status = "submitted" THEN job.payment_amount ELSE 0

\* GET /wallet/balance: SELECT total_earned, ... FROM users WHERE id = ?
BalanceRead(r) ==
    /\ CanArrive(r)
    /\ \E w \in Workers :
         Proceed(r, [Arrive("balance", w) EXCEPT
                         !.pc = "pending", !.total_earned = users[w].total_earned])
    /\ UNCHANGED <<job, deliverables, transactions, messages, users, agents,
                   ledger, storage, nextFile,
                   reviews, keeper, room, limiter>>

BalancePending(r) ==
    /\ At(r, "balance", "pending")
    /\ Proceed(r, [req[r] EXCEPT !.pc = "sum", !.pending = pendingEarnings(req[r].caller)])
    /\ UNCHANGED <<job, deliverables, transactions, messages, users, agents,
                   ledger, storage, nextFile,
                   reviews, keeper, room, limiter>>

\* const availableBalance = userStats.total_earned - (withdrawals?.total_withdrawn || 0)
BalanceSum(r) ==
    /\ At(r, "balance", "sum")
    /\ Answer(r, req[r], 200,
              {[available    |-> req[r].total_earned - total_withdrawn(req[r].caller),
                pending      |-> req[r].pending,
                total_earned |-> req[r].total_earned]})
    /\ UNCHANGED <<job, deliverables, transactions, messages, users, agents,
                   ledger, storage, nextFile,
                   reviews, keeper, room, limiter>>

\* POST /wallet/withdraw: the checks of the body, then
\* SELECT total_earned FROM users WHERE id = ?
WithdrawRead(r) ==
    /\ CanArrive(r)
    /\ \E w \in Workers, amount \in WithdrawAmounts, complete \in BOOLEAN :
         LET q == [Arrive("withdraw", w) EXCEPT !.amount = amount] IN
         IF amount <= 0 \/ ~complete
           THEN Fail(r, q, 400)
           ELSE Proceed(r, [q EXCEPT !.pc = "sum", !.total_earned = users[w].total_earned])
    /\ UNCHANGED <<job, deliverables, transactions, messages, users, agents,
                   ledger, storage, nextFile,
                   reviews, keeper, room, limiter>>

\* the sum of the pending and completed withdrawals, then
\* if (amount > availableBalance) 400; if (amount < 10) 400
WithdrawSum(r) ==
    /\ At(r, "withdraw", "sum")
    /\ LET availableBalance == req[r].total_earned - total_requested(req[r].caller) IN
       IF req[r].amount > availableBalance \/ req[r].amount < MinWithdrawal
         THEN Finish(r, 400)
         ELSE Goto(r, "trust")
    /\ UNCHANGED <<job, deliverables, transactions, messages, users, agents,
                   ledger, storage, nextFile,
                   reviews, keeper, room, limiter>>

\* SELECT trust_level FROM users WHERE id = ?; if (trust_level === 'basic') 403
WithdrawTrust(r) ==
    /\ At(r, "withdraw", "trust")
    /\ IF users[req[r].caller].trust_level = "basic"
         THEN Finish(r, 403)
         ELSE Goto(r, "insert")
    /\ UNCHANGED <<job, deliverables, transactions, messages, users, agents,
                   ledger, storage, nextFile,
                   reviews, keeper, room, limiter>>

\* INSERT INTO transactions (..., 'withdrawal', amount, currency, 'pending', ...)
WithdrawInsert(r) ==
    /\ At(r, "withdraw", "insert")
    /\ transactions' = Append(transactions,
          [user_id |-> req[r].caller, type |-> "withdrawal", amount |-> req[r].amount,
           job_id |-> NULL, status |-> "pending"])
    /\ Finish(r, 200)
    /\ UNCHANGED <<job, deliverables, messages, users, agents,
                   ledger, storage, nextFile,
                   reviews, keeper, room, limiter>>

\* the background job that processes a withdrawal: a pending one becomes completed
Processed ==
    /\ \E i \in DOMAIN transactions :
         /\ transactions[i].type = "withdrawal" /\ transactions[i].status = "pending"
         /\ transactions' = [transactions EXCEPT ![i].status = "completed"]
    /\ resp' = NoResp
    /\ out' = {}
    /\ UNCHANGED <<job, deliverables, messages, users, agents,
                   ledger, storage, nextFile, admitted, req,
                   reviews, keeper, room, limiter>>

\* worker w1 has been paid EarnedBefore for an earlier job of agent a1 and now works
\* on the job, or has submitted it, with one deliverable uploaded
InitWallet ==
    /\ \E status \in {"in_progress", "submitted"} :
         job = [NewJob("a1", "verified", HoldId) EXCEPT
                   !.status = status, !.worker_id = "w1", !.assigned_at = TRUE,
                   !.started_at = TRUE, !.submitted_at = (status = "submitted")]
    /\ users = [w \in Workers |->
                  IF w = "w1" THEN [NewUser(trust_level[w]) EXCEPT
                                       !.jobs_completed = 1, !.total_earned = EarnedBefore]
                  ELSE NewUser(trust_level[w])]
    /\ agents = [a \in Agents |->
                   IF a = "a1" THEN [jobs_created |-> 2, jobs_completed |-> 1,
                                     total_spent_sats |-> EarnedBefore]
                   ELSE NewAgent]
    /\ keeper = "up"
    /\ deliverables = <<[job_id |-> "job1", worker_id |-> "w1", file_url |-> 1]>>
    /\ transactions = <<[user_id |-> "w1", type |-> "job_payment", amount |-> EarnedBefore,
                         job_id |-> "job0", status |-> "completed"]>>
    /\ messages = <<>> /\ reviews = <<>> /\ ledger = <<>>
    /\ storage = {1} /\ nextFile = 2
    /\ req = [r \in ReqIds |-> Idle]
    /\ admitted = 0 /\ resp = NoResp /\ out = {}
    /\ NewRoom /\ NewLimiter

\* approvals, cancellations, balance queries and withdrawals, running concurrently
NextWallet ==
    \/ \E r \in ReqIds :
         \/ ApproveRead(r) \/ ApproveRelease(r) \/ ApproveUpdate(r) \/ ApproveTxn(r)
         \/ ApproveTip(r) \/ ApproveUser(r) \/ ApproveAgent(r)
         \/ CancelRead(r) \/ CancelVoid(r) \/ CancelTxn(r) \/ CancelEarn(r)
         \/ CancelUpdate(r) \/ CancelMessage(r)
         \/ BalanceRead(r) \/ BalancePending(r) \/ BalanceSum(r)
         \/ WithdrawRead(r) \/ WithdrawSum(r) \/ WithdrawTrust(r) \/ WithdrawInsert(r)
    \/ Processed

SpecWallet == InitWallet /\ [][NextWallet]_vars

\* C29: with no request in flight, each worker's total_earned is the sum of the amounts
\* of that worker's completed job_payment and bonus transactions, and a balance the
\* wallet has just reported from the worker's current total_earned has as its available
\* amount that sum minus the worker's completed withdrawals.
Paid(w) == SumAmounts(w, {"job_payment", "bonus"}, {"completed"}, Len(transactions))

ThreadRowFound(w) == job.worker_id = w

ThreadRead(r) ==
    /\ CanArrive(r)
    /\ \E w \in Workers : LET q == Arrive("thread", w) IN
       IF ~ThreadRowFound(w)
         THEN Fail(r, q, 404)
         ELSE Proceed(r, [q EXCEPT !.pc = "select"])
    /\ UNCHANGED <<job, deliverables, transactions, messages, users, agents,
                   ledger, storage, nextFile, reviews, keeper, room, limiter>>

\* the listing selected by job alone
WorkerThread_AnyWorker(w) == {i \in DOMAIN messages : messages[i].job_id = job.id}

\* SELECT * FROM messages WHERE job_id = ? AND worker_id = ? (the page holds them all)
WorkerThread(w) ==
    {i \in DOMAIN messages : messages[i].job_id = job.id /\ messages[i].worker_id = w}

ThreadSelect(r) ==
    /\ At(r, "thread", "select")
    /\ Proceed(r, [req[r] EXCEPT !.pc = "mark",
                                 !.thread = {messages[i] : i \in WorkerThread(req[r].caller)}])
    /\ UNCHANGED <<job, deliverables, transactions, messages, users, agents,
                   ledger, storage, nextFile, reviews, keeper, room, limiter>>

\* the sender is not looked at
WorkerMarks_AnySender(w, m) == m.job_id = job.id /\ m.worker_id = w /\ ~m.is_read

\* ... WHERE job_id = ? AND worker_id = ? AND sender_type = 'agent' AND is_read = 0
WorkerMarks(w, m) ==
    m.job_id = job.id /\ m.worker_id = w /\ m.sender_type = "agent" /\ ~m.is_read

\* UPDATE messages SET is_read = 1 WHERE ..., then the response with the rows selected
ThreadMark(r) ==
    /\ At(r, "thread", "mark")
    /\ messages' = [i \in DOMAIN messages |->
                      IF WorkerMarks(req[r].caller, messages[i])
                        THEN [messages[i] EXCEPT !.is_read = TRUE]
                        ELSE messages[i]]
    /\ Answer(r, req[r], 200, req[r].thread)
    /\ UNCHANGED <<job, deliverables, transactions, users, agents,
                   ledger, storage, nextFile, reviews, keeper, room, limiter>>

\* agent: GET /agent/jobs/:id/messages.  SELECT ... FROM jobs j WHERE j.id = ? AND j.agent_id = ?
AgentThreadRowFound(a) == job.agent_id = a

AgentThreadRead(r) ==
    /\ CanArrive(r)
    /\ \E a \in Agents : LET q == Arrive("agent_thread", a) IN
       IF ~AgentThreadRowFound(a)
         THEN Fail(r, q, 404)
         ELSE Proceed(r, [q EXCEPT !.pc = "select"])
    /\ UNCHANGED <<job, deliverables, transactions, messages, users, agents,
                   ledger, storage, nextFile, reviews, keeper, room, limiter>>

\* SELECT * FROM messages WHERE job_id = ? AND agent_id = ?
AgentThread(a) ==
    {i \in DOMAIN messages : messages[i].job_id = job.id /\ messages[i].agent_id = a}

AgentThreadSelect(r) ==
    /\ At(r, "agent_thread", "select")
    /\ Proceed(r, [req[r] EXCEPT !.pc = "mark",
                                 !.thread = {messages[i] : i \in AgentThread(req[r].caller)}])
    /\ UNCHANGED <<job, deliverables, transactions, messages, users, agents,
                   ledger, storage, nextFile, reviews, keeper, room, limiter>>

\* ... WHERE job_id = ? AND agent_id = ? AND sender_type = 'worker' AND is_read = 0
AgentMarks(a, m) ==
    m.job_id = job.id /\ m.agent_id = a /\ m.sender_type = "worker" /\ ~m.is_read

\* UPDATE messages SET is_read = 1, read_at = CURRENT_TIMESTAMP WHERE ...
AgentThreadMark(r) ==
    /\ At(r, "agent_thread", "mark")
    /\ messages' = [i \in DOMAIN messages |->
                      IF AgentMarks(req[r].caller, messages[i])
                        THEN [messages[i] EXCEPT !.is_read = TRUE]
                        ELSE messages[i]]
    /\ Answer(r, req[r], 200, req[r].thread)
    /\ UNCHANGED <<job, deliverables, transactions, users, agents,
                   ledger, storage, nextFile, reviews, keeper, room, limiter>>

\* a text message of a thread, unread
Text(jobId, agent, worker, sender) ==
    [job_id |-> jobId, agent_id |-> agent, worker_id |-> worker, sender_type |-> sender,
     message_type |-> "text", message |-> "text", is_read |-> FALSE]

\* w2 had the job, exchanged a message with a1 each way and was released by a reject;
\* w1 has accepted and started it.  a1 and w1 have an unread message each way on an
\* earlier job
InitThread ==
    /\ job = [NewJob("a1", "verified", HoldId) EXCEPT
                 !.status = "in_progress", !.worker_id = "w1", !.assigned_at = TRUE,
                 !.started_at = TRUE, !.rejection_count = 1,
                 !.last_rejection_reason = "poor"]
    /\ users = [w \in Workers |-> NewUser(trust_level[w])]
    /\ agents = [a \in Agents |-> IF a = "a1" THEN [NewAgent EXCEPT !.jobs_created = 2]
                                             ELSE NewAgent]
    /\ keeper = "up"
    /\ deliverables = <<>> /\ transactions = <<>> /\ reviews = <<>>
    /\ messages = <<Text("job1", "a1", "w2", "agent"), Text("job1", "a1", "w2", "worker"),
                    Text("job0", "a1", "w1", "agent"), Text("job0", "a1", "w1", "worker")>>
    /\ ledger = <<>> /\ storage = {} /\ nextFile = 1
    /\ req = [r \in ReqIds |-> Idle]
    /\ admitted = 0 /\ resp = NoResp /\ out = {}
    /\ NewRoom /\ NewLimiter

\* messages sent and threads read by both sides, two requests at a time
NextThread ==
    \E r \in ReqIds :
       \/ AgentMessageRead(r) \/ AgentMessageInsert(r) \/ SendRead(r) \/ SendInsert(r)
       \/ ThreadRead(r) \/ ThreadSelect(r) \/ ThreadMark(r)
       \/ AgentThreadRead(r) \/ AgentThreadSelect(r) \/ AgentThreadMark(r)

SpecThread == InitThread /\ [][NextThread]_vars

\* C30: a step changes the read flag of a message only by setting it, and only in the
\* UPDATE of a thread read: the worker's read sets it on exactly the unread agent-sent
\* messages of the job that carry that worker's id, the agent's read on exactly the
\* unread worker-sent messages of the job that carry that agent's id.  The reader's own
\* messages, the messages of another job and of another worker's thread keep their flag,
\* and no other column of a message changes.
CounterParty(m) ==
    \/ /\ resp'.op = "thread" /\ resp'.code = 200
       /\ m.job_id = job.id /\ m.worker_id = resp'.caller /\ m.sender_type = "agent"
    \/ /\ resp'.op = "agent_thread" /\ resp'.code = 200
       /\ m.job_id = job.id /\ m.agent_id = resp'.caller /\ m.sender_type = "worker"

C30_MarksCounterParty ==
    [][\A i \in DOMAIN messages :
          /\ i \in DOMAIN messages'
          /\ [messages'[i] EXCEPT !.is_read = messages[i].is_read] = messages[i]
          /\ messages'[i].is_read # messages[i].is_read => CounterParty(messages[i])
          /\ CounterParty(messages[i]) => messages'[i].is_read]_vars

\* w1 has read the thread: a1's message to w1 on the job is read; w1's own message, a1's
\* message to w2 on the job and a1's message to w1 on the earlier job are still unread
C30_WorkerReadMarked ==
    /\ resp = [op |-> "thread", caller |-> "w1", code |-> 200]
    /\ \E i \in DOMAIN messages : messages[i] = [Text("job1", "a1", "w1", "agent")
                                                    EXCEPT !.is_read = TRUE]
    /\ \E i \in DOMAIN messages : messages[i] = Text("job1", "a1", "w1", "worker")
    /\ messages[1] = Text("job1", "a1", "w2", "agent")
    /\ messages[3] = Text("job0", "a1", "w1", "agent")
    /\ out # {}

\* C31: an approve by the owning agent of a job that is already completed is answered
\* with 409.
C31_DoubleApproveConflict ==
    [][(req' = req /\ resp'.op = "approve" /\ resp' # resp
          /\ resp'.caller = job.agent_id /\ job.status = "completed")
         => resp'.code = 409]_vars

\* the owning agent's approve of the completed job has been answered with 404
C31_DoubleApproveNotFound ==
    /\ job.status = "completed" /\ job.completed_at
    /\ agents[job.agent_id].jobs_completed = 1
    /\ resp = [op |-> "approve", caller |-> job.agent_id, code |-> 404]

\* C32: a reject that releases the job records its message to the worker before the
\* release is visible: whenever the job is available without a worker, every rejection
\* counted on it has its message in table messages.
RejectionMessages == {i \in DOMAIN messages : messages[i].message = "rejected"}

C32_MessageBeforeRelease ==
    (job.status = "available" /\ job.worker_id = NULL)
       => Cardinality(RejectionMessages) >= job.rejection_count

\* the releasing reject has run its UPDATE jobs and is about to clean up the deliverables;
\* the job is back in the pool and no message has been recorded
C32_ReleasedUnannounced ==
    /\ \E r \in ReqIds : At(r, "reject", "select") /\ ~req[r].keep
                         /\ req[r].snap.worker_id = "w1"
    /\ job.status = "available" /\ job.worker_id = NULL /\ job.rejection_count = 1
    /\ messages = <<>>

\* ------------------------------------- job creation while workers are connected
\* the create handler of one request and the connects and closes of the room; no
\* statement of the create handler, and no other code, calls the room's notifyNewJob
NextAnnounce ==
    \/ CreateRead("r1") \/ CreateHold("r1") \/ CreateInsert("r1") \/ CreateCount("r1")
    \/ CreateSelect("r1")
    \/ Connect
    \/ \E s \in SessionIds : webSocketClose(s)

\* every handler runs to its end and the room keeps taking events
SpecAnnounce == InitLimit /\ [][NextAnnounce]_vars /\ WF_vars(NextAnnounce)

\* C33: every job creation answered with 201 is followed by a new_job frame delivered
\* by the room.
C33_CreateAnnounced ==
    (resp.op = "create" /\ resp.code = 201) ~> (\E f \in sent : f.type = "new_job")

\* the job has been created and answered with 201 while a worker who may take it is
\* connected; the room has been asked nothing and has delivered no new_job frame
C33_CreatedUnannounced ==
    /\ resp = [op |-> "create", caller |-> job.agent_id, code |-> 201]
    /\ job.status = "available"
    /\ \E s \in Registry : sockets[s] = "open" /\ ~TrustTooLow(sessions[s].userId)
    /\ did.op = "fetch"
    /\ \A f \in sent : f.type # "new_job"

\* C34: the hold of the job is resolved at most once: over every execution the ledger
\* is sent at most one release or void for it.
Resolutions == {i \in DOMAIN ledger : ledger[i].op \in {"release", "void"}}

C34_HoldResolvedOnce == Cardinality(Resolutions) <= 1

\* the hold has been voided by a cancel and released by an approve, both answered 200
C34_VoidedAndReleased ==
    /\ Quiescent
    /\ \E i, k \in Resolutions :
          /\ ledger[i].op = "void" /\ ledger[k].op = "release"
          /\ ledger[i].hold_id = ledger[k].hold_id
    /\ Cardinality(Resolutions) = 2
    /\ job.status \in {"completed", "cancelled"}

\* C35: at most one sweep timer is ever running, and whenever a session is registered
\* exactly one is: a connect sets a timer only when none is running, and no connect,
\* close or sweep leaves a registered session without one.
C35_OneSweepTimer ==
    /\ pingInterval \in {0, 1}
    /\ Registry # {} => pingInterval = 1

\* a second client has connected while the first is registered: still one timer
C35_SecondConnectOneTimer ==
    /\ did.op = "fetch" /\ did.arg = 101
    /\ Cardinality(Registry) >= 2
    /\ pingInterval = 1

\* C36: in every state, a submitted job has at least one deliverable row and every
\* deliverable row of the job carries the id of the job's current worker.
C36_SubmittedHasDeliverables ==
    /\ job.status = "submitted" => deliverables # <<>>
    /\ \A i \in DOMAIN deliverables : deliverables[i].worker_id = job.worker_id

\* the second worker's submission stands with no deliverable row: the cleanup of the
\* reject that released the first worker has deleted the rows the second one uploaded
C36_SubmittedEmpty ==
    /\ Quiescent
    /\ job.status = "submitted" /\ job.worker_id # NULL
    /\ job.rejection_count = 1
    /\ deliverables = <<>>

\* C37: no worker's pending and completed withdrawals add up to more than the worker's
\* total_earned, also when withdraw requests of one worker interleave; and a withdraw
\* request above the available balance it reads, below the minimum, or of a worker at
\* tier basic inserts no transaction.
C37_NoOverdraw ==
    [][/\ \A w \in Workers : total_requested(w)' <= users'[w].total_earned
       /\ \A r \in ReqIds :
            (At(r, "withdraw", "insert") /\ req'[r].pc = "idle") =>
               /\ req[r].amount >= MinWithdrawal
               /\ users[req[r].caller].trust_level # "basic"]_vars

\* two withdrawals of the whole balance have both been accepted
C37_Overdrawn ==
    /\ Quiescent
    /\ total_requested("w1") = 2 * MinWithdrawal
    /\ users["w1"].total_earned = EarnedBefore
    /\ resp = [op |-> "withdraw", caller |-> "w1", code |-> 200]

\* C38: on a job that was released by a reject and taken by a second worker, the
\* listing a worker is answered holds only messages of the job that carry that
\* worker's id, so none exchanged with the other worker; a read or a send of a worker
\* who is not the job's worker gets no further than the job lookup; and the listing the
\* owning agent selects holds every message of the job, whichever worker it was
\* exchanged with.
C38_OwnConversationOnly ==
    [][/\ (resp'.op = "thread" /\ resp'.code = 200 /\ resp' # resp) =>
             \A m \in out' : m.job_id = job.id /\ m.worker_id = resp'.caller
       /\ \A r \in ReqIds :
            /\ (~InFlight(r) /\ InFlight(r)' /\ req'[r].op \in {"thread", "send"})
                  => req'[r].caller = job.worker_id
            /\ (At(r, "agent_thread", "select") /\ req'[r].pc = "mark") =>
                  /\ req[r].caller = job.agent_id
                  /\ \A i \in DOMAIN messages :
                        messages[i].job_id = job.id => messages[i] \in req'[r].thread]_vars

\* the second worker w1 has been answered a listing with a message of the own
\* conversation in it and none of the two that the first worker w2 exchanged on the job
C38_SecondWorkerListing ==
    /\ resp = [op |-> "thread", caller |-> "w1", code |-> 200]
    /\ \E m \in out : m.worker_id = "w1" /\ m.sender_type = "worker"
    /\ \A m \in out : m.worker_id # "w2"
    /\ messages[1].worker_id = "w2" /\ messages[2].worker_id = "w2"
    /\ messages[1].job_id = job.id /\ messages[2].job_id = job.id

\* C39: an accept gets past the job lookup only when the job is available and has not
\* expired, and no step assigns a job whose expiry has passed.
C39_ExpiredNotAccepted ==
    [][/\ \A r \in ReqIds :
            (~InFlight(r) /\ InFlight(r)' /\ req'[r].op = "accept")
               => job.status = "available" /\ ~job.expired
       /\ (job.status # "assigned" /\ job'.status = "assigned") => ~job.expired]_vars

\* a worker has been told that the expired job is theirs
C39_ExpiredAssigned ==
    /\ job.expired
    /\ job.status = "assigned" /\ job.worker_id = resp.caller
    /\ resp.op = "accept" /\ resp.code = 200
    /\ ~(\E r \in ReqIds : InFlight(r))

\* ------------------------------------- job creation when the job INSERT can fail
\* the awaited INSERT INTO jobs throws (the database rejects the statement or one of
\* its bound values); the handler's catch answers 500 and does nothing else
CreateInsertThrows(r) ==
    /\ At(r, "create", "insert")
    /\ Finish(r, 500)
    /\ UNCHANGED <<job, deliverables, transactions, messages, users, agents,
                   ledger, storage, nextFile, reviews, keeper, room, limiter>>

\* creations of one request at a time against a ledger that fails and recovers
NextHold ==
    LET r == "r1" IN
       \/ CreateRead(r) \/ CreateHold(r) \/ CreateInsert(r) \/ CreateInsertThrows(r)
       \/ CreateCount(r) \/ CreateSelect(r)
       \/ KeeperChange

SpecHold == InitLimit /\ [][NextHold]_vars

\* C40: once a create has ended, every hold the ledger granted it is the
\* escrow_hold_id of the stored job or has been voided: no outcome of create leaves
\* funds held with no job row that references the hold and no void issued.
Granted == {i \in DOMAIN ledger : ledger[i].op = "hold" /\ ledger[i].answer = "up"}

C40_HoldRecordedOrVoided ==
    Quiescent =>
      \A i \in Granted :
         \/ job.id # NULL /\ job.escrow_hold_id = ledger[i].hold_id
         \/ \E k \in DOMAIN ledger :
               ledger[k].op = "void" /\ ledger[k].hold_id = ledger[i].hold_id

\* the create was answered 500 after its hold was granted: no job row, no void
C40_HeldWithoutJob ==
    /\ resp.op = "create" /\ resp.code = 500
    /\ job = NoJob
    /\ Granted # {}
    /\ \A k \in DOMAIN ledger : ledger[k].op = "hold"
    /\ \A a \in Agents : agents[a].jobs_created = 0

====
